---- MODULE Spec2Model ----
(***************************************************************************)
(* A model of bors (src/bors.py): the per-pull-request state machine, the  *)
(* advancement protocol of PullReq.try_advance, the reconciler loop of     *)
(* main(), and the remote (refs, commits, statuses, comments, CI builds)   *)
(* they act on.  Every remote write of try_advance is one step of the      *)
(* model, so that external writers interleave where the code can be        *)
(* suspended.                                                              *)
(***************************************************************************)
EXTENDS Integers, Sequences, FiniteSets, TLC

\* ---------------------------------------------------------------- bounds
NumPRs == 2          \* pull requests of the destination repository
MaxMerges == 4       \* server-side merge commits created over a behaviour
MaxExt == 3          \* external events (pushes, CI reports, comments, ...)
MaxRetryComments == 1 \* "@bors: retry" head comments per pull request
MaxKills == 1        \* runs terminated from outside over a behaviour
MaxBotComments == 10 \* a run starts only while every pull has fewer comments of the integrator

PRs == 1..NumPRs

\* ------------------------------------------------------ program constants
BUILDBOT_STATUS_SUCCESS == 0
BUILDBOT_STATUS_WARNINGS == 1
BUILDBOT_STATUS_FAILURE == 2
BUILDBOT_STATUS_SKIPPED == 3
BUILDBOT_STATUS_EXCEPTION == 4
BUILDBOT_STATUS_RETRY == 5

STATE_BAD == -2
STATE_STALE == -1
STATE_DISCUSSING == 0
STATE_UNREVIEWED == 1
STATE_APPROVED == 2
STATE_PENDING == 3
STATE_TESTED == 4
STATE_CLOSED == 5

\* configuration (bors.cfg)
gh_user == "bors"
reviewers == {"alice"}
approval_tokens == {"r+", "r=me"}
disapproval_tokens == {"r-"}
delete_source_branch == FALSE

\* values of the model that stand for "absent"
NoSha == 0           \* None / a ref that does not exist
NoBuild == -1        \* builder has no build for the revision
\* JSON values of the "mergeable" field of a pull
JsonTrue == "true"
JsonFalse == "false"
JsonNull == "null"

\* comment bodies that occur in the model
RETRY == "@bors: retry"
Bodies == {"r+", "r-", RETRY, "hello"}

VARIABLES
    \* ---- remote state (the hosting platform)
    commits,        \* commits[c]: the set of parents of commit c
    target_ref,     \* tip of the target branch
    test_refs,      \* tip of each integration branch (NoSha: no such ref)
    closed,         \* closed[p]
    mergeable,      \* mergeable[p] \in {JsonTrue, JsonFalse, JsonNull}
    statuses,       \* statuses[p]: statuses on head_sha by gh_user, newest first
    head_comments,  \* head_comments[p]: comments on the commit head_sha
    pull_comments,  \* pull_comments[p]: comments of the pull/issue thread
    bot_comments,   \* bot_comments[p]: comments the integrator posted on head_sha
    revs,           \* revs[c][b]: result of builder b for revision c (BuildBot.revs)
    check_runs,     \* check_runs[c]: check runs of revision c (absent: none)
    commit_statuses, \* commit_statuses[c]: commit statuses of revision c by CI (absent: none)
    \* ---- configuration (bors.cfg)
    cfg_test_ref,   \* TRUE: cfg["test_ref"] names one global integration branch
    builders,       \* cfg["builders"]
    max_pulls_per_run, \* cfg.get("max_pulls_per_run"), 0 when absent
    no_auto_merge,  \* cfg.get("no_auto_merge") is True
    use_github_checks_api,        \* cfg.get("use_github_checks_api")
    use_github_commit_status_api, \* cfg.get("use_github_commit_status_api")
    \* ---- the running process
    run,            \* "idle" | "running"
    queue,          \* pulls still to advance in this run, ripest first
    cur,            \* pull request being advanced (0: none)
    pc,             \* position inside try_advance
    s,              \* state inferred by try_advance
    target_sha,     \* local: target tip read by reset_test_ref_to_target / fresh
    merge_sha,      \* self.merge_sha of the pull request being advanced
    t,              \* tri-state CI verdict: "True" | "False" | "None"
    exit_code,      \* exit code of the last finished run
    \* ---- history
    log,            \* remote calls of the current (or last) try_advance
    ext,            \* number of external events so far
    nmerges,        \* number of server-side merges so far
    landed,         \* SHAs the integrator moved target_ref to
    passed,         \* SHAs for which the CI aggregator returned pass to try_advance
    quiet,          \* quiet[p]: since p's last try_advance began, nothing but it wrote
    second,         \* the current try_advance follows one of the same pull, undisturbed
    begin_obs,      \* what was observable of the pull when its try_advance began
    forgiven,       \* forgiven[p]: a retry comment arrived after a CI failure of p, no run since
    streak,         \* streak[p]: times in a row another pull's merge replaced p's candidate
    kills,          \* number of runs terminated from outside so far
    pass_tip,       \* pass_tip[p]: tip of target_ref when CI last passed a candidate of p
    \* ---- one request of the remote client (GitHub._http)
    http_pc,        \* "idle" | "open" | "returned" | "returned None" | "raised"
    nretries,       \* local of _http
    http_code,      \* status code of the last response (0: none yet)
    attempts,       \* times the request was sent
    http_retried    \* status codes after which the request was sent again

remote == <<commits, target_ref, test_refs, closed, mergeable, statuses,
            head_comments, pull_comments, bot_comments, revs>>
proc == <<run, queue, cur, pc, s, target_sha, merge_sha, t, exit_code>>
hist == <<log, ext, nmerges, landed, passed>>
hist2 == <<quiet, second, begin_obs, forgiven, streak>>
ci == <<check_runs, commit_statuses>>
conf == <<builders, max_pulls_per_run, no_auto_merge,
          use_github_checks_api, use_github_commit_status_api>>
hist3 == <<kills, pass_tip>>
http == <<http_pc, nretries, http_code, attempts, http_retried>>
vars == <<remote, ci, cfg_test_ref, conf, proc, hist, hist2, hist3, http>>

\* ------------------------------------------------------------ PullReq
head_sha(p) == 1 + p                  \* self.sha

test_ref(p) == IF cfg_test_ref THEN 0 ELSE p   \* self.test_ref (a ref name)

\* SHAs are strings of 40 hexadecimal digits; a regular expression of the
\* approval lists takes 7 to 40 of them
MinShaPrefix == 7
ShaLen == 40

\* the name of commit c, as a sequence of digits
ShaOf(c) == [i \in 1..ShaLen |-> (c * i) % 16]

startswith(str, prefix) ==
    Len(prefix) <= Len(str) /\ SubSeq(str, 1, Len(prefix)) = prefix

\* re.match(rec, c), rec being "^(?:tokens)\s+([a-z0-9]{7,40})": the body
\* starts with a token and white space, and the word after it has at least
\* 7 digits
rec_match(c, tokens) == c.c \in tokens /\ Len(c.x) >= MinShaPrefix

\* m.group(1): the first 40 digits, at most, of the word
rec_group(c) ==
    IF Len(c.x) <= ShaLen THEN c.x ELSE SubSeq(c.x, 1, ShaLen)

StartsWithAny(c, tokens) == c \in tokens

\* mutant: every comment on the head is kept
get_head_comments_unfiltered(p) == head_comments[p]

\* self.head_comments: the comments on the head that a reviewer wrote and
\* that were not edited (c.e: created_at differs from updated_at)
get_head_comments(p) ==
    SelectSeq(head_comments[p], LAMBDA c : c.u \in reviewers /\ ~c.e)

\* mutant: an approval in the pull thread is not compared with the head
approval_list_unbound(p) ==
    SelectSeq(get_head_comments(p), LAMBDA c : StartsWithAny(c.c, approval_tokens))
    \o SelectSeq(pull_comments[p],
                 LAMBDA c : rec_match(c, approval_tokens) /\ c.u \in reviewers)

\* approval tokens on the head, and approval tokens followed by a prefix of
\* the head SHA in the pull thread.  ("r=<name>" on the head is in the
\* model only as the token "r=me"; the last list of the code is reached
\* only by head comments "r=<name> <sha>", which the model has none of.)
approval_list(p) ==
    SelectSeq(get_head_comments(p), LAMBDA c : StartsWithAny(c.c, approval_tokens))
    \o SelectSeq(pull_comments[p],
                 LAMBDA c : /\ rec_match(c, approval_tokens)
                            /\ c.u \in reviewers
                            /\ startswith(ShaOf(head_sha(p)), rec_group(c)))

disapproval_list(p) ==
    SelectSeq(get_head_comments(p), LAMBDA c : StartsWithAny(c.c, disapproval_tokens))
    \o SelectSeq(pull_comments[p],
                 LAMBDA c : /\ rec_match(c, disapproval_tokens)
                            /\ c.u \in reviewers
                            /\ startswith(ShaOf(head_sha(p)), rec_group(c)))

count_retries(p) ==
    Cardinality({i \in DOMAIN get_head_comments(p) : get_head_comments(p)[i].c = RETRY})

all_comments(p) == get_head_comments(p) \o pull_comments[p]

count_failures(p) ==
    Cardinality({i \in DOMAIN statuses[p] : statuses[p][i].state = "failure"})

count_successes(p) ==
    Cardinality({i \in DOMAIN statuses[p] : statuses[p][i].state = "success"})

count_pendings(p) ==
    Cardinality({i \in DOMAIN statuses[p] : statuses[p][i].state = "pending"})

count_errors(p) ==
    Cardinality({i \in DOMAIN statuses[p] : statuses[p][i].state = "error"})

\* the comment bodies that mention somebody and say "merge", cut into the
\* pieces the pattern of merge_allowed tells apart
MergeBodies == {"@bors: merge", "@bors merge", "@bors: merge later",
                "@bors:: merge", "please @bors: merge", "@alice: merge"}

MentionWords(c) ==
    CASE c = "@bors: merge"        -> <<"@", "bors", ":", " merge">>
      [] c = "@bors merge"         -> <<"@", "bors", " merge">>
      [] c = "@bors: merge later"  -> <<"@", "bors", ":", " merge", " later">>
      [] c = "@bors:: merge"       -> <<"@", "bors", ":", ":", " merge">>
      [] c = "please @bors: merge" -> <<"please ", "@", "bors", ":", " merge">>
      [] c = "@alice: merge"       -> <<"@", "alice", ":", " merge">>
      [] OTHER                     -> <<c>>

\* re.match of ^@<gh_user>:{0,1} merge : anchored at the start only
merge_rec_match(c) ==
    LET w == MentionWords(c)
    IN  /\ Len(w) >= 3
        /\ w[1] = "@"
        /\ w[2] = gh_user
        /\ \/ w[3] = " merge"
           \/ Len(w) >= 4 /\ w[3] = ":" /\ w[4] = " merge"

\* mutant: the author of the comment is not looked at
merge_allowed_anyone(p) ==
    IF no_auto_merge = TRUE
    THEN \E i \in DOMAIN pull_comments[p] : merge_rec_match(pull_comments[p][i].c)
    ELSE TRUE

merge_allowed(p) ==
    IF no_auto_merge = TRUE
    THEN \E i \in DOMAIN pull_comments[p] :
            /\ merge_rec_match(pull_comments[p][i].c)
            /\ pull_comments[p][i].u \in reviewers
    ELSE TRUE

\* the description of a status: a text, and the word that follows it
Description(text, word) == [text |-> text, word |-> word]

CandidateText == "running tests for candidate "

\* mutant: the candidate is written as in the comments, "%.8s"
candidate_description_short(sha) ==
    Description(CandidateText, SubSeq(ShaOf(sha), 1, 8))

\* "running tests for candidate %s" % self.merge_sha
candidate_description(sha) == Description(CandidateText, ShaOf(sha))

\* the characters [a-z0-9]: every hexadecimal digit is one
InClass(ch) == ch \in 0..15

\* the longest run of [a-z0-9] at the start of a word
RECURSIVE ClassRun(_)
ClassRun(w) ==
    IF w = <<>> \/ ~InClass(Head(w)) THEN <<>> ELSE <<Head(w)>> \o ClassRun(Tail(w))

\* re.match(r"running tests for candidate ([a-z0-9]+)", desc).group(1), or
\* <<>> when there is no match
candidate_group(desc) ==
    IF desc.text = CandidateText THEN ClassRun(desc.word) ELSE <<>>

\* the commit a SHA names, if it names one
CommitNamed(w) ==
    IF \E c \in DOMAIN commits : ShaOf(c) = w
    THEN CHOOSE c \in DOMAIN commits : ShaOf(c) = w
    ELSE NoSha

\* mutant: the newest status is parsed, whatever its state
get_merge_sha_newest_status(p) ==
    IF Len(statuses[p]) > 0 /\ candidate_group(statuses[p][1].description) # <<>>
    THEN CommitNamed(candidate_group(statuses[p][1].description))
    ELSE NoSha

\* newest pending status, parsed
get_merge_sha(p) ==
    LET statusdescs == SelectSeq(statuses[p], LAMBDA x : x.state = "pending")
    IN  IF Len(statusdescs) > 0 /\ candidate_group(statusdescs[1].description) # <<>>
        THEN CommitNamed(candidate_group(statusdescs[1].description))
        ELSE NoSha

\* mutant: the pending statuses must be fewer than the retry comments
current_state_strict(p) ==
    IF closed[p] THEN STATE_CLOSED
    ELSE IF count_errors(p) + count_failures(p) > count_retries(p) THEN STATE_BAD
    ELSE IF Len(disapproval_list(p)) # 0 THEN STATE_BAD
    ELSE IF count_successes(p) # 0 THEN STATE_TESTED
    ELSE IF mergeable[p] = JsonFalse THEN STATE_STALE
    ELSE IF Len(approval_list(p)) # 0
         THEN IF count_pendings(p) < count_retries(p)
              THEN STATE_APPROVED
              ELSE STATE_PENDING
    ELSE IF Len(all_comments(p)) # 0 THEN STATE_DISCUSSING
    ELSE STATE_UNREVIEWED

\* mutant: error statuses are not counted against the retry comments
current_state_failures_only(p) ==
    IF closed[p] THEN STATE_CLOSED
    ELSE IF count_failures(p) > count_retries(p) THEN STATE_BAD
    ELSE IF Len(disapproval_list(p)) # 0 THEN STATE_BAD
    ELSE IF count_successes(p) # 0 THEN STATE_TESTED
    ELSE IF mergeable[p] = JsonFalse THEN STATE_STALE
    ELSE IF Len(approval_list(p)) # 0
         THEN IF count_pendings(p) <= count_retries(p)
              THEN STATE_APPROVED
              ELSE STATE_PENDING
    ELSE IF Len(all_comments(p)) # 0 THEN STATE_DISCUSSING
    ELSE STATE_UNREVIEWED

\* mutant: the pull counts as PENDING once the comment about the merge is
\* posted, not once the pending status is
current_state_by_comment(p) ==
    IF closed[p] THEN STATE_CLOSED
    ELSE IF count_errors(p) + count_failures(p) > count_retries(p) THEN STATE_BAD
    ELSE IF Len(disapproval_list(p)) # 0 THEN STATE_BAD
    ELSE IF count_successes(p) # 0 THEN STATE_TESTED
    ELSE IF mergeable[p] = JsonFalse THEN STATE_STALE
    ELSE IF Len(approval_list(p)) # 0
         THEN IF Cardinality({i \in DOMAIN bot_comments[p] : bot_comments[p][i] = "merged ok"})
                 <= count_retries(p)
              THEN STATE_APPROVED
              ELSE STATE_PENDING
    ELSE IF Len(all_comments(p)) # 0 THEN STATE_DISCUSSING
    ELSE STATE_UNREVIEWED

current_state(p) ==
    IF closed[p] THEN STATE_CLOSED
    ELSE IF count_errors(p) + count_failures(p) > count_retries(p) THEN STATE_BAD
    ELSE IF Len(disapproval_list(p)) # 0 THEN STATE_BAD
    ELSE IF count_successes(p) # 0 THEN STATE_TESTED
    ELSE IF mergeable[p] = JsonFalse THEN STATE_STALE
    ELSE IF Len(approval_list(p)) # 0
         THEN IF count_pendings(p) <= count_retries(p)
              THEN STATE_APPROVED
              ELSE STATE_PENDING
    ELSE IF Len(all_comments(p)) # 0 THEN STATE_DISCUSSING
    ELSE STATE_UNREVIEWED

\* the integers of the "p=<signed-integer>" tokens of a comment body, in
\* the order they occur in
PriorityTokens(c) ==
    IF c = "p=1" THEN <<1>>
    ELSE IF c = "p=2" THEN <<2>>
    ELSE IF c = "p=-5" THEN <<-5>>
    ELSE IF c = "p=1 p=2" THEN <<1, 2>>
    ELSE <<>>

\* the loop of PullReq.priority from comment i on, p being acc; re.search
\* gives the first token of a body
RECURSIVE priority_from(_, _, _)
priority_from(cs, i, acc) ==
    IF i > Len(cs) THEN acc
    ELSE LET m == PriorityTokens(cs[i].c)
         IN  priority_from(cs, i + 1,
                 IF m = <<>> THEN acc
                 ELSE IF m[1] > acc THEN m[1] ELSE acc)

priority(p) == priority_from(get_head_comments(p), 1, 0)

\* mutant: the pull number is not negated
prioritized_state_newest_first(p) == <<current_state(p), priority(p), p>>

prioritized_state(p) == <<current_state(p), priority(p), -p>>


KeyLess(a, b) ==
    \/ a[1] < b[1]
    \/ a[1] = b[1] /\ a[2] < b[2]
    \/ a[1] = b[1] /\ a[2] = b[2] /\ a[3] < b[3]

\* sorted(pulls, key=PullReq.prioritized_state), as a sequence (ascending)
RECURSIVE SortedPulls(_)
SortedPulls(S) ==
    IF S = {} THEN <<>>
    ELSE LET m == CHOOSE p \in S : \A q \in S \ {p} :
                      KeyLess(prioritized_state(p), prioritized_state(q))
         IN  <<m>> \o SortedPulls(S \ {m})

Reverse(seq) == [i \in 1..Len(seq) |-> seq[Len(seq) + 1 - i]]

LastN(seq, n) ==
    IF n >= Len(seq) THEN seq ELSE SubSeq(seq, Len(seq) - n + 1, Len(seq))

\* mutant: only closed pulls are left out
ViableUnlessClosed(p) == current_state(p) < STATE_CLOSED

Viable(p) ==
    current_state(p) >= STATE_DISCUSSING /\ current_state(p) < STATE_CLOSED

\* the pulls main() calls try_advance on, in the order it calls it
AdvanceOrder ==
    LET viable == SelectSeq(SortedPulls(PRs), Viable)
        considered == IF max_pulls_per_run # 0
                      THEN LastN(viable, max_pulls_per_run)
                      ELSE viable
    IN  Reverse(considered)

\* ------------------------------------------------------------ BuildBot
build_has_status(b, st) == b # NoBuild /\ b = st

\* BuildBot.test_status on the builds r that get_status kept for a revision
\* (r[b] = NoBuild: none for builder b): "True" pass, "False" failure,
\* "None" waiting
revs_status(r) ==
    LET inrevs == \E b \in builders : r[b] # NoBuild
        passes == {b \in builders : build_has_status(r[b], BUILDBOT_STATUS_SUCCESS)}
        warnings == {b \in builders : build_has_status(r[b], BUILDBOT_STATUS_WARNINGS)}
        failures == {b \in builders : build_has_status(r[b], BUILDBOT_STATUS_FAILURE)}
        exceptions == {b \in builders : build_has_status(r[b], BUILDBOT_STATUS_EXCEPTION)}
    IN  IF ~inrevs THEN "None"
        ELSE IF Cardinality(failures) > 0 \/ Cardinality(exceptions) > 0 THEN "False"
        ELSE IF Cardinality(passes) + Cardinality(warnings) = Cardinality(builders)
             THEN "True"
        ELSE "None"

\* BuildBot.test_status
test_status(sha) == revs_status(revs[sha])

\* ------------------------------------------------- the GitHub CI backends
CheckRun(status, conclusion) == [status |-> status, conclusion |-> conclusion]

\* try_advance, use_github_checks_api: the verdict computed from the check
\* runs ss of the candidate
check_runs_status(ss) ==
    LET successes == {i \in DOMAIN ss : ss[i].status = "completed"
                                         /\ ss[i].conclusion = "success"}
        failures == {i \in DOMAIN ss : ss[i].status = "completed"
                                        /\ ss[i].conclusion = "failure"}
        errors == {i \in DOMAIN ss : /\ ss[i].status = "completed"
                                      /\ ~(\/ ss[i].conclusion = "failure"
                                            \/ ss[i].conclusion = "success")}
    IN  IF \/ Len(ss) = 0
           \/ Cardinality(successes) + Cardinality(failures) + Cardinality(errors) = 0
        THEN "None"
        ELSE IF Cardinality(successes) > 0 /\ Len(ss) = Cardinality(successes)
             THEN "True"
        ELSE "False"

\* mutant: pass needs exactly one success status per configured builder
commit_statuses_exact(ss) ==
    LET successes == {i \in DOMAIN ss : ss[i] = "success"}
        failures == {i \in DOMAIN ss : ss[i] = "failure"}
        errors == {i \in DOMAIN ss : ss[i] = "error"}
    IN  IF \/ Len(ss) = 0
           \/ Cardinality(successes) + Cardinality(failures) + Cardinality(errors) = 0
        THEN "None"
        ELSE IF Cardinality(successes) = Cardinality(builders)
                /\ Cardinality(failures) + Cardinality(errors) = 0
             THEN "True"
        ELSE "False"

\* try_advance, use_github_commit_status_api: the verdict computed from the
\* commit statuses ss of the candidate
commit_statuses_status(ss) ==
    LET successes == {i \in DOMAIN ss : ss[i] = "success"}
        failures == {i \in DOMAIN ss : ss[i] = "failure"}
        errors == {i \in DOMAIN ss : ss[i] = "error"}
    IN  IF \/ Len(ss) = 0
           \/ Cardinality(successes) + Cardinality(failures) + Cardinality(errors) = 0
        THEN "None"
        ELSE IF Cardinality(successes) > 0
                /\ Cardinality(failures) + Cardinality(errors) = 0
             THEN "True"
        ELSE "False"

ChecksOf(sha) == IF sha \in DOMAIN check_runs THEN check_runs[sha] ELSE <<>>

StatusesOf(sha) == IF sha \in DOMAIN commit_statuses THEN commit_statuses[sha] ELSE <<>>

\* the tri-state t of try_advance for a fresh candidate of a PENDING pull:
\* the "if" of the check runs is followed by an "if ... else" of the commit
\* statuses, so the value computed from the check runs is always replaced,
\* by the commit statuses or by BuildBot
ci_status(sha) ==
    LET t_checks == IF use_github_checks_api
                    THEN check_runs_status(ChecksOf(sha))
                    ELSE "None"
        t_last == IF use_github_commit_status_api
                  THEN commit_statuses_status(StatusesOf(sha))
                  ELSE test_status(sha)
    IN  t_last

\* ------------------------------------------------------------ git
RECURSIVE IsAncestor(_, _)
\* a is b or is reachable from b through parent links
IsAncestor(a, b) ==
    \/ a = b
    \/ \E x \in commits[b] : IsAncestor(a, x)

\* mutant: the candidate itself, not the head of the pull, is looked up
\* among the parents
fresh_wrong_sha(p, sha, target_tip) ==
    LET test_parents == commits[sha]
    IN  /\ Cardinality(test_parents) = 2
        /\ target_tip \in test_parents
        /\ sha \in test_parents

\* PullReq.fresh, given the target tip it read
fresh(p, sha, target_tip) ==
    LET test_parents == commits[sha]
    IN  /\ Cardinality(test_parents) = 2
        /\ target_tip \in test_parents
        /\ head_sha(p) \in test_parents

\* ------------------------------------------------------------ helpers
Entry(op, sha) == [op |-> op, sha |-> sha]

\* mutant: the comment is not posted
add_comment_dropped(p, kind) ==
    bot_comments' = bot_comments

add_comment(p, kind) ==
    bot_comments' = [bot_comments EXCEPT ![p] = Append(@, kind)]

\* mutant: the description of the status does not name the candidate
set_status_no_sha(p, st, desc) ==
    statuses' = [statuses EXCEPT ![p] =
                    <<[state |-> st, description |-> Description(desc.text, <<>>)]>> \o @]

set_status(p, st, desc) ==
    statuses' = [statuses EXCEPT ![p] = <<[state |-> st, description |-> desc]>> \o @]

\* the description try_advance gives a status of state st
StatusDescription(st, sha) ==
    IF st = "pending" THEN candidate_description(sha)
    ELSE IF st = "success" THEN Description("all tests passed", <<>>)
    ELSE IF st = "failure" THEN Description("some tests failed", <<>>)
    ELSE Description("failed", <<>>)

Logged(op, sha) == log' = Append(log, Entry(op, sha))

\* the remote state one pull request's try_advance can change
Obs(p) == [statuses |-> statuses[p], comments |-> bot_comments[p],
           test |-> test_refs[test_ref(p)], target |-> target_ref,
           closed |-> closed[p]]

NoObs == [statuses |-> <<>>, comments |-> <<>>, test |-> NoSha, target |-> NoSha,
          closed |-> FALSE]

\* a remote write of the current try_advance
Wrote == quiet' = [q \in PRs |-> q = cur /\ quiet[q]]

\* an external event
Disturbed == /\ quiet' = [q \in PRs |-> FALSE]
             /\ second' = FALSE


\* ------------------------------------------------------------ Init
\* no request of the remote client is under way
HttpIdle ==
    /\ http_pc = "idle"
    /\ nretries = 0
    /\ http_code = 0
    /\ attempts = 0
    /\ http_retried = {}

EmptyBuilds == [b \in builders |-> NoBuild]

ReportedCodes == {BUILDBOT_STATUS_SUCCESS, BUILDBOT_STATUS_FAILURE}

\* a comment of user u: body c, followed (after white space) by the word x;
\* e tells whether it was edited after its creation
CommentX(u, c, x) == [u |-> u, c |-> c, x |-> x, e |-> FALSE]

Edited(c) == [c EXCEPT !.e = TRUE]

Comment(u, c) == CommentX(u, c, <<>>)

\* CI is BuildBot with one builder
DefaultBackends ==
    /\ builders = {"b1"}
    /\ use_github_checks_api = FALSE
    /\ use_github_commit_status_api = FALSE

\* commit 1 is the tip of target_ref, commit 1+p the head of pull p (a child
\* of commit 1); a pull request may already carry a reviewer's approval
InitState ==
    /\ commits = [c \in 1..(1 + NumPRs) |-> IF c = 1 THEN {} ELSE {1}]
    /\ revs = [c \in 1..(1 + NumPRs) |-> EmptyBuilds]
    /\ target_ref = 1
    /\ test_refs = [r \in 0..NumPRs |-> NoSha]
    /\ closed = [p \in PRs |-> FALSE]
    /\ mergeable = [p \in PRs |-> JsonTrue]
    /\ statuses = [p \in PRs |-> <<>>]
    /\ head_comments \in [PRs -> {<<>>, <<Comment("alice", "r+")>>}]
    /\ pull_comments = [p \in PRs |-> <<>>]
    /\ bot_comments = [p \in PRs |-> <<>>]
    /\ check_runs = <<>>
    /\ commit_statuses = <<>>
    /\ run = "idle"
    /\ queue = <<>>
    /\ cur = 0
    /\ pc = "none"
    /\ s = STATE_UNREVIEWED
    /\ target_sha = NoSha
    /\ merge_sha = NoSha
    /\ t = "None"
    /\ exit_code = 0
    /\ log = <<>>
    /\ ext = 0
    /\ nmerges = 0
    /\ landed = {}
    /\ passed = {}
    /\ quiet = [p \in PRs |-> FALSE]
    /\ second = FALSE
    /\ begin_obs = NoObs
    /\ forgiven = [p \in PRs |-> FALSE]
    /\ streak = [p \in PRs |-> 0]
    /\ kills = 0
    /\ pass_tip = [p \in PRs |-> NoSha]
    /\ HttpIdle

\* the integration branch is one per pull or one for all; every pull of a
\* run is advanced, and a TESTED pull lands without a further comment
Init ==
    /\ cfg_test_ref \in BOOLEAN
    /\ DefaultBackends
    /\ max_pulls_per_run = 0
    /\ no_auto_merge = FALSE
    /\ InitState

\* ------------------------------------------------------------ main()
\* main() loads every pull, sorts, filters and starts calling try_advance
RunStart ==
    /\ UNCHANGED <<ci, conf, hist3, http>>
    /\ run = "idle"
    /\ \A p \in PRs : Len(bot_comments[p]) < MaxBotComments
    /\ run' = "running"
    /\ queue' = AdvanceOrder
    /\ cur' = 0
    /\ pc' = "none"
    /\ s' = STATE_UNREVIEWED
    /\ target_sha' = NoSha
    /\ merge_sha' = NoSha
    /\ t' = "None"
    /\ log' = <<>>
    /\ UNCHANGED <<remote, cfg_test_ref, exit_code, ext, nmerges, landed, passed>>
    /\ second' = FALSE
    /\ begin_obs' = NoObs
    /\ UNCHANGED <<quiet, forgiven, streak>>

\* the list of try_advance calls is exhausted: exit code 0 (the process and
\* its PullReq objects are gone)
RunEnd ==
    /\ UNCHANGED <<ci, conf, hist3, http>>
    /\ run = "running"
    /\ pc \in {"none", "done"}
    /\ queue = <<>>
    /\ run' = "idle"
    /\ exit_code' = 0
    /\ cur' = 0
    /\ pc' = "none"
    /\ s' = STATE_UNREVIEWED
    /\ target_sha' = NoSha
    /\ merge_sha' = NoSha
    /\ t' = "None"
    /\ log' = <<>>
    /\ UNCHANGED <<remote, cfg_test_ref, queue, ext, nmerges, landed, passed>>
    /\ second' = FALSE
    /\ begin_obs' = NoObs
    /\ UNCHANGED <<quiet, forgiven, streak>>

\* an exception leaves try_advance and main(): the run ends with that code
Crash(code) ==
    /\ run' = "idle"
    /\ queue' = <<>>
    /\ pc' = "crashed"
    /\ exit_code' = code
    /\ UNCHANGED <<cur, s>>

\* ------------------------------------------------------------ try_advance
\* entry of try_advance for the next pull of the run
Begin ==
    /\ UNCHANGED <<ci, conf, hist3, http>>
    /\ run = "running"
    /\ pc \in {"none", "done"}
    /\ queue # <<>>
    /\ LET p == Head(queue)
           st == current_state(p)
       IN  /\ cur' = p
           /\ queue' = Tail(queue)
           /\ s' = st
           /\ merge_sha' = get_merge_sha(p)
           /\ pc' = IF st = STATE_APPROVED THEN "saw_approval"
                    ELSE IF st = STATE_PENDING THEN "get_test_head"
                    ELSE IF st = STATE_TESTED /\ merge_allowed(p) THEN "fresh"
                    ELSE "done"
    /\ log' = <<>>
    /\ target_sha' = NoSha
    /\ t' = "None"
    /\ UNCHANGED <<remote, cfg_test_ref, run, exit_code, ext, nmerges, landed, passed>>
    /\ second' = quiet[Head(queue)]
    /\ quiet' = [quiet EXCEPT ![Head(queue)] = TRUE]
    /\ begin_obs' = Obs(Head(queue))
    /\ forgiven' = [forgiven EXCEPT ![Head(queue)] = FALSE]
    /\ UNCHANGED streak

\* a step of try_advance that only posts a comment on head_sha
CommentStep(at, kind, next) ==
    /\ UNCHANGED <<ci, conf, hist3, http>>
    /\ run = "running"
    /\ pc = at
    /\ add_comment(cur, kind)
    /\ Logged("comment:" \o kind, NoSha)
    /\ pc' = next
    /\ UNCHANGED <<commits, target_ref, test_refs, closed, mergeable, statuses,
                   head_comments, pull_comments, revs, cfg_test_ref,
                   run, queue, cur, s, target_sha, merge_sha, t, exit_code,
                   ext, nmerges, landed, passed>>
    /\ Wrote
    /\ UNCHANGED <<second, begin_obs, forgiven, streak>>

\* a step of try_advance that only posts a status on head_sha and returns
StatusStep(at, st) ==
    /\ UNCHANGED <<ci, conf, hist3, http>>
    /\ run = "running"
    /\ pc = at
    /\ set_status(cur, st, StatusDescription(st, merge_sha))
    /\ Logged("status:" \o st, IF st = "pending" THEN merge_sha ELSE NoSha)
    /\ pc' = "done"
    /\ UNCHANGED <<commits, target_ref, test_refs, closed, mergeable,
                   head_comments, pull_comments, bot_comments, revs, cfg_test_ref,
                   run, queue, cur, s, target_sha, merge_sha, t, exit_code,
                   ext, nmerges, landed, passed>>
    /\ Wrote
    /\ UNCHANGED <<second, begin_obs, forgiven, streak>>

SawApproval == CommentStep("saw_approval", "saw approval", "reset_get_target")

\* reset_test_ref_to_target: read the tip of target_ref
ResetGetTarget ==
    /\ UNCHANGED <<ci, conf, hist3, http>>
    /\ run = "running"
    /\ pc = "reset_get_target"
    /\ target_sha' = target_ref
    /\ pc' = "reset_test_ref"
    /\ UNCHANGED <<remote, cfg_test_ref, run, queue, cur, s, merge_sha, t, exit_code, hist>>
    /\ UNCHANGED hist2

\* mutant: a test_ref that does not exist is not created
ResetTestRefPatchOnly ==
    /\ UNCHANGED <<ci, conf, hist3, http>>
    /\ run = "running"
    /\ pc = "reset_test_ref"
    /\ test_refs' = [test_refs EXCEPT ![test_ref(cur)] = IF @ # NoSha THEN target_sha ELSE @]
    /\ Logged(IF test_refs[test_ref(cur)] # NoSha THEN "reset:patch" ELSE "reset:post",
              target_sha)
    /\ pc' = "merge_comment"
    /\ UNCHANGED <<commits, target_ref, closed, mergeable, statuses,
                   head_comments, pull_comments, bot_comments, revs, cfg_test_ref,
                   run, queue, cur, s, target_sha, merge_sha, t, exit_code,
                   ext, nmerges, landed, passed>>
    /\ Wrote
    /\ UNCHANGED <<second, begin_obs, forgiven, streak>>

\* reset_test_ref_to_target: force-update test_ref, or create it when the
\* GET raised ApiError
ResetTestRef ==
    /\ UNCHANGED <<ci, conf, hist3, http>>
    /\ run = "running"
    /\ pc = "reset_test_ref"
    /\ test_refs' = [test_refs EXCEPT ![test_ref(cur)] = target_sha]
    /\ Logged(IF test_refs[test_ref(cur)] # NoSha THEN "reset:patch" ELSE "reset:post",
              target_sha)
    /\ pc' = "merge_comment"
    /\ UNCHANGED <<commits, target_ref, closed, mergeable, statuses,
                   head_comments, pull_comments, bot_comments, revs, cfg_test_ref,
                   run, queue, cur, s, target_sha, merge_sha, t, exit_code,
                   ext, nmerges, landed, passed>>
    /\ Wrote
    /\ UNCHANGED <<second, begin_obs, forgiven, streak>>

MergeComment == CommentStep("merge_comment", "merging", "merge_post")

\* merge_pull_head_to_test_ref: POST merges(base=test_ref, head=sha)
MergePost ==
    /\ UNCHANGED <<ci, conf, hist3, http>>
    /\ run = "running"
    /\ pc = "merge_post"
    /\ LET base == test_refs[test_ref(cur)]
           new == Len(commits) + 1
       IN  \/ \* 201: a merge commit is created and test_ref moves to it
              /\ base # NoSha
              /\ ~IsAncestor(head_sha(cur), base)
              /\ nmerges < MaxMerges
              /\ commits' = Append(commits, {base, head_sha(cur)})
              /\ revs' = Append(revs, EmptyBuilds)
              /\ test_refs' = [test_refs EXCEPT ![test_ref(cur)] = new]
              /\ merge_sha' = new
              /\ nmerges' = nmerges + 1
              /\ Logged("merge:ok", new)
              /\ pc' = "merge_ok_comment"
              /\ UNCHANGED <<run, queue, cur, s, exit_code, ext>>
           \/ \* 409 merge conflict, or 404 missing base: ApiError, caught
              /\ \/ base = NoSha
                 \/ /\ base # NoSha
                    /\ ~IsAncestor(head_sha(cur), base)
                    /\ ext < MaxExt
              /\ ext' = IF base = NoSha THEN ext ELSE ext + 1
              /\ Logged("merge:failed", NoSha)
              /\ pc' = "merge_fail_comment"
              /\ UNCHANGED <<commits, revs, test_refs, merge_sha, nmerges,
                             run, queue, cur, s, exit_code>>
           \/ \* 204: head is already contained in base; _http returns None
              \* and j["sha"] raises TypeError, which nothing catches
              /\ base # NoSha
              /\ IsAncestor(head_sha(cur), base)
              /\ Logged("merge:nothing", NoSha)
              /\ Crash(1)
              /\ UNCHANGED <<commits, revs, test_refs, merge_sha, nmerges, ext>>
    /\ UNCHANGED <<target_ref, closed, mergeable, statuses, head_comments,
                   pull_comments, bot_comments, cfg_test_ref, target_sha, t,
                   landed, passed>>
    /\ Wrote
    /\ UNCHANGED <<second, begin_obs, forgiven, streak>>

MergeOkComment == CommentStep("merge_ok_comment", "merged ok", "set_pending")
SetPending == StatusStep("set_pending", "pending")
MergeFailComment == CommentStep("merge_fail_comment", "merging failed", "set_error")
\* mutant: the handler records a failure status
SetErrorAsFailure == StatusStep("set_error", "failure")

SetError == StatusStep("set_error", "error")


\* STATE_PENDING: GET the tip of test_ref; a missing ref is a 404 ApiError
\* that try_advance does not catch
GetTestHead ==
    /\ UNCHANGED <<ci, conf, hist3, http>>
    /\ run = "running"
    /\ pc = "get_test_head"
    /\ LET test_sha == test_refs[test_ref(cur)]
       IN  \/ /\ test_sha # NoSha
              /\ merge_sha' = test_sha
              /\ pc' = "fresh"
              /\ UNCHANGED <<run, queue, cur, s, exit_code>>
           \/ /\ test_sha = NoSha
              /\ Crash(-1)
              /\ UNCHANGED merge_sha
    /\ UNCHANGED <<remote, cfg_test_ref, target_sha, t, hist>>
    /\ UNCHANGED hist2

\* self.fresh(): GET the tip of target_ref and the commit merge_sha; a
\* merge_sha of None has no commit (404 ApiError, not caught)
Fresh ==
    /\ UNCHANGED <<ci, conf, hist3, http>>
    /\ run = "running"
    /\ pc = "fresh"
    /\ \/ /\ merge_sha # NoSha
          /\ target_sha' = target_ref
          /\ pc' = IF fresh(cur, merge_sha, target_ref)
                   THEN IF s = STATE_PENDING THEN "test_status" ELSE "ffwd_patch"
                   ELSE "stale_comment"
          /\ UNCHANGED <<run, queue, cur, s, exit_code>>
       \/ /\ merge_sha = NoSha
          /\ Crash(-1)
          /\ UNCHANGED target_sha
    /\ UNCHANGED <<remote, cfg_test_ref, merge_sha, t, hist>>
    /\ streak' = IF s = STATE_PENDING /\ merge_sha # NoSha
                 THEN IF \E q \in PRs \ {cur} : head_sha(q) \in commits[merge_sha]
                      THEN [streak EXCEPT ![cur] = @ + 1]
                      ELSE [streak EXCEPT ![cur] = 0]
                 ELSE streak
    /\ UNCHANGED <<quiet, second, begin_obs, forgiven>>

StaleComment == CommentStep("stale_comment", "stale", "reset_get_target")

\* mutant: a verdict that is not there yet is reported as a failure
TestStatusImpatient ==
    /\ UNCHANGED <<ci, conf, kills, http>>
    /\ run = "running"
    /\ pc = "test_status"
    /\ LET v == ci_status(merge_sha)
       IN  /\ t' = v
           /\ passed' = IF v = "True" THEN passed \cup {merge_sha} ELSE passed
           /\ pass_tip' = IF v = "True" THEN [pass_tip EXCEPT ![cur] = target_sha]
                          ELSE pass_tip
           /\ pc' = IF v = "True" THEN "pass_comment" ELSE "fail_comment"
    /\ Logged("test_status", merge_sha)
    /\ UNCHANGED <<remote, cfg_test_ref, run, queue, cur, s, target_sha, merge_sha,
                   exit_code, ext, nmerges, landed>>
    /\ UNCHANGED hist2

\* STATE_PENDING with a fresh candidate: the CI verdict of merge_sha
TestStatus ==
    /\ UNCHANGED <<ci, conf, kills, http>>
    /\ run = "running"
    /\ pc = "test_status"
    /\ LET v == ci_status(merge_sha)
       IN  /\ t' = v
           /\ passed' = IF v = "True" THEN passed \cup {merge_sha} ELSE passed
           /\ pass_tip' = IF v = "True" THEN [pass_tip EXCEPT ![cur] = target_sha]
                          ELSE pass_tip
           /\ pc' = IF v = "True" THEN "pass_comment"
                    ELSE IF v = "False" THEN "fail_comment"
                    ELSE "done"
    /\ Logged("test_status", merge_sha)
    /\ UNCHANGED <<remote, cfg_test_ref, run, queue, cur, s, target_sha, merge_sha,
                   exit_code, ext, nmerges, landed>>
    /\ UNCHANGED hist2

PassComment == CommentStep("pass_comment", "all tests pass", "set_success")
\* mutant: after the success status the same call goes on to land the pull
SetSuccessThenLand ==
    /\ UNCHANGED <<ci, conf, hist3, http>>
    /\ run = "running"
    /\ pc = "set_success"
    /\ set_status(cur, "success", StatusDescription("success", merge_sha))
    /\ Logged("status:success", NoSha)
    /\ pc' = "ffwd_patch"
    /\ UNCHANGED <<commits, target_ref, test_refs, closed, mergeable,
                   head_comments, pull_comments, bot_comments, revs, cfg_test_ref,
                   run, queue, cur, s, target_sha, merge_sha, t, exit_code,
                   ext, nmerges, landed, passed>>
    /\ Wrote
    /\ UNCHANGED <<second, begin_obs, forgiven, streak>>

SetSuccess == StatusStep("set_success", "success")

FailComment == CommentStep("fail_comment", "some tests failed", "set_failure")

SetFailure == StatusStep("set_failure", "failure")

\* mutant: the PATCH of target_ref is sent with force=True
FfwdPatchForced ==
    /\ UNCHANGED <<ci, conf, hist3, http>>
    /\ run = "running"
    /\ pc = "ffwd_patch"
    /\ target_ref' = merge_sha
    /\ landed' = landed \cup {merge_sha}
    /\ Logged("ffwd:ok", merge_sha)
    /\ pc' = "ffwd_comment"
    /\ UNCHANGED <<commits, test_refs, closed, mergeable, statuses, head_comments,
                   pull_comments, bot_comments, revs, cfg_test_ref,
                   run, queue, cur, s, target_sha, merge_sha, t, exit_code,
                   ext, nmerges, passed>>
    /\ Wrote
    /\ UNCHANGED <<second, begin_obs, forgiven, streak>>

\* advance_target_ref_to_test: PATCH target_ref to merge_sha with force=False;
\* the platform accepts it only as a fast-forward
FfwdPatch ==
    /\ UNCHANGED <<ci, conf, hist3, http>>
    /\ run = "running"
    /\ pc = "ffwd_patch"
    /\ \/ /\ IsAncestor(target_ref, merge_sha)
          /\ target_ref' = merge_sha
          /\ landed' = landed \cup {merge_sha}
          /\ Logged("ffwd:ok", merge_sha)
          /\ pc' = "ffwd_comment"
       \/ /\ ~IsAncestor(target_ref, merge_sha)
          /\ Logged("ffwd:rejected", merge_sha)
          /\ pc' = "ffwd_fail_comment"
          /\ UNCHANGED <<target_ref, landed>>
    /\ UNCHANGED <<commits, test_refs, closed, mergeable, statuses, head_comments,
                   pull_comments, bot_comments, revs, cfg_test_ref,
                   run, queue, cur, s, target_sha, merge_sha, t, exit_code,
                   ext, nmerges, passed>>
    /\ Wrote
    /\ UNCHANGED <<second, begin_obs, forgiven, streak>>

FfwdComment == CommentStep("ffwd_comment", "fast-forwarding", "delete_test_ref")

\* delete the integration branch (a failure is logged and ignored), then
\* maybe_delete_source_branch, which does nothing unless configured
DeleteTestRef ==
    /\ UNCHANGED <<ci, conf, hist3, http>>
    /\ run = "running"
    /\ pc = "delete_test_ref"
    /\ test_refs' = [test_refs EXCEPT ![test_ref(cur)] = NoSha]
    /\ Logged("delete_test_ref", test_refs[test_ref(cur)])
    /\ pc' = "done"
    /\ UNCHANGED <<commits, target_ref, closed, mergeable, statuses,
                   head_comments, pull_comments, bot_comments, revs, cfg_test_ref,
                   run, queue, cur, s, target_sha, merge_sha, t, exit_code,
                   ext, nmerges, landed, passed>>
    /\ Wrote
    /\ UNCHANGED <<second, begin_obs, forgiven, streak>>

FfwdFailComment == CommentStep("ffwd_fail_comment", "fast-forwarding failed", "set_error")

\* ------------------------------------------------------------ environment
\* Someone else pushes a commit to target_ref.  It can happen at any moment;
\* the integrator reads the tip of target_ref in reset_test_ref_to_target, in
\* fresh and (on the platform) in the non-force PATCH, so a push is taken
\* between runs or right before one of these reads.
PushTarget ==
    /\ UNCHANGED <<ci, conf, hist3, http>>
    /\ run = "idle" \/ pc \in {"reset_get_target", "fresh", "ffwd_patch"}
    /\ ext < MaxExt
    /\ ext' = ext + 1
    /\ commits' = Append(commits, {target_ref})
    /\ revs' = Append(revs, EmptyBuilds)
    /\ target_ref' = Len(commits) + 1
    /\ UNCHANGED <<test_refs, closed, mergeable, statuses, head_comments,
                   pull_comments, bot_comments, cfg_test_ref, proc,
                   log, nmerges, landed, passed>>
    /\ Disturbed
    /\ UNCHANGED <<begin_obs, forgiven, streak>>

\* A builder finishes a build of a trial merge.  try_advance asks for the
\* builds of a candidate that an earlier run made, so a report is taken
\* between runs.
CIReport ==
    /\ UNCHANGED <<ci, conf, hist3, http>>
    /\ run = "idle"
    /\ ext < MaxExt
    /\ ext' = ext + 1
    /\ \E c \in DOMAIN commits, b \in builders, code \in ReportedCodes :
          /\ Cardinality(commits[c]) = 2
          /\ revs[c][b] = NoBuild
          /\ revs' = [revs EXCEPT ![c][b] = code]
    /\ UNCHANGED <<commits, target_ref, test_refs, closed, mergeable, statuses,
                   head_comments, pull_comments, bot_comments, cfg_test_ref, proc,
                   log, nmerges, landed, passed>>
    /\ Disturbed
    /\ UNCHANGED <<begin_obs, forgiven, streak>>

\* The events below change only what a run loads before its first
\* try_advance; one that arrives during a run is seen by the next run, so
\* they are taken between runs.

\* a reviewer comments on the head commit
AddHeadComment ==
    /\ UNCHANGED <<ci, conf, hist3, http>>
    /\ run = "idle"
    /\ ext < MaxExt
    /\ ext' = ext + 1
    /\ \E p \in PRs, c \in {"r+", "r-", RETRY} :
          /\ c = RETRY => count_retries(p) < MaxRetryComments
          /\ c # RETRY => \A i \in DOMAIN head_comments[p] : head_comments[p][i].c # c
          /\ head_comments' = [head_comments EXCEPT ![p] = Append(@, Comment("alice", c))]
          /\ forgiven' = [forgiven EXCEPT ![p] = @ \/ (c = RETRY /\ count_failures(p) > 0)]
    /\ UNCHANGED <<commits, target_ref, test_refs, closed, mergeable, statuses,
                   pull_comments, bot_comments, revs, cfg_test_ref, proc,
                   log, nmerges, landed, passed>>
    /\ Disturbed
    /\ UNCHANGED <<begin_obs, streak>>

\* somebody comments on the pull request thread
AddPullComment ==
    /\ UNCHANGED <<ci, conf, hist3, http>>
    /\ run = "idle"
    /\ ext < MaxExt
    /\ ext' = ext + 1
    /\ \E p \in PRs :
          /\ pull_comments[p] = <<>>
          /\ pull_comments' = [pull_comments EXCEPT ![p] = Append(@, Comment("mallory", "hello"))]
    /\ UNCHANGED <<commits, target_ref, test_refs, closed, mergeable, statuses,
                   head_comments, bot_comments, revs, cfg_test_ref, proc,
                   log, nmerges, landed, passed>>
    /\ Disturbed
    /\ UNCHANGED <<begin_obs, forgiven, streak>>

\* the platform recomputes the mergeable flag of a pull request
SetMergeable ==
    /\ UNCHANGED <<ci, conf, hist3, http>>
    /\ run = "idle"
    /\ ext < MaxExt
    /\ ext' = ext + 1
    /\ \E p \in PRs, v \in {JsonTrue, JsonFalse, JsonNull} :
          /\ mergeable[p] # v
          /\ mergeable' = [mergeable EXCEPT ![p] = v]
    /\ UNCHANGED <<commits, target_ref, test_refs, closed, statuses,
                   head_comments, pull_comments, bot_comments, revs, cfg_test_ref,
                   proc, log, nmerges, landed, passed>>
    /\ Disturbed
    /\ UNCHANGED <<begin_obs, forgiven, streak>>

\* the pull request is closed: by hand, or by the platform once its head
\* is contained in target_ref
ClosePR ==
    /\ UNCHANGED <<ci, conf, hist3, http>>
    /\ run = "idle"
    /\ \E p \in PRs :
          /\ ~closed[p]
          /\ \/ IsAncestor(head_sha(p), target_ref) /\ ext' = ext
             \/ ~IsAncestor(head_sha(p), target_ref) /\ ext < MaxExt /\ ext' = ext + 1
          /\ closed' = [closed EXCEPT ![p] = TRUE]
    /\ UNCHANGED <<commits, target_ref, test_refs, mergeable, statuses,
                   head_comments, pull_comments, bot_comments, revs, cfg_test_ref,
                   proc, log, nmerges, landed, passed>>
    /\ Disturbed
    /\ UNCHANGED <<begin_obs, forgiven, streak>>

\* The process is terminated from outside (SIGKILL, power loss) between two
\* remote calls, or between two try_advance calls: nothing of it survives.
Kill ==
    /\ run = "running"
    /\ kills < MaxKills
    /\ kills' = kills + 1
    /\ run' = "idle"
    /\ queue' = <<>>
    /\ cur' = 0
    /\ pc' = "none"
    /\ s' = STATE_UNREVIEWED
    /\ target_sha' = NoSha
    /\ merge_sha' = NoSha
    /\ t' = "None"
    /\ log' = <<>>
    /\ begin_obs' = NoObs
    /\ Disturbed
    /\ UNCHANGED <<remote, ci, cfg_test_ref, conf, exit_code, ext, nmerges, landed,
                   passed, forgiven, streak, pass_tip, http>>

\* ------------------------------------------------------------ specification
Advance ==
    \/ Begin
    \/ SawApproval \/ ResetGetTarget \/ ResetTestRef
    \/ MergeComment \/ MergePost \/ MergeOkComment \/ SetPending
    \/ MergeFailComment \/ SetError
    \/ GetTestHead \/ Fresh \/ StaleComment
    \/ TestStatus \/ PassComment \/ SetSuccess \/ FailComment \/ SetFailure
    \/ FfwdPatch \/ FfwdComment \/ DeleteTestRef \/ FfwdFailComment

Environment ==
    \/ PushTarget \/ CIReport \/ AddHeadComment \/ AddPullComment
    \/ SetMergeable \/ ClosePR

Next == RunStart \/ RunEnd \/ Advance \/ Environment

Spec == Init /\ [][Next]_vars

\* the same program in its default configuration (one integration branch
\* per pull), with runs that may be terminated half-way; pull 2 starts
\* without a review
InitKill == Init /\ ~cfg_test_ref /\ head_comments[2] = <<>>

NextKill == Next \/ Kill

SpecKill == InitKill /\ [][NextKill]_vars


\* somebody answers on the pull request thread with a comment that mentions
\* an account and says "merge"
AddMergeComment ==
    /\ UNCHANGED <<ci, conf, hist3, http>>
    /\ run = "idle"
    /\ ext < MaxExt
    /\ ext' = ext + 1
    /\ \E p \in PRs, u \in {"alice", "mallory"}, c \in MergeBodies :
          /\ \A i \in DOMAIN pull_comments[p] : pull_comments[p][i].c \notin MergeBodies
          /\ pull_comments' = [pull_comments EXCEPT ![p] = Append(@, Comment(u, c))]
    /\ UNCHANGED <<commits, target_ref, test_refs, closed, mergeable, statuses,
                   head_comments, bot_comments, revs, cfg_test_ref, proc,
                   log, nmerges, landed, passed>>
    /\ Disturbed
    /\ UNCHANGED <<begin_obs, forgiven, streak>>

\* the default configuration but for no_auto_merge; pull 2 starts without a
\* review
InitOptIn ==
    /\ cfg_test_ref = FALSE
    /\ DefaultBackends
    /\ max_pulls_per_run = 0
    /\ no_auto_merge = TRUE
    /\ InitState
    /\ head_comments[2] = <<>>

NextOptIn == Next \/ AddMergeComment

SpecOptIn == InitOptIn /\ [][NextOptIn]_vars

\* somebody who is not a reviewer comments on the head commit, or a
\* comment of a reviewer on the head commit is there in an edited form
ForeignBodies == {"r+", "r-", RETRY, "p=2"}

ForeignComments ==
    UNION {{Comment("mallory", c), Edited(Comment("alice", c))} : c \in ForeignBodies}

AddForeignHeadComment ==
    /\ UNCHANGED <<ci, conf, hist3, http>>
    /\ run = "idle"
    /\ ext < MaxExt
    /\ ext' = ext + 1
    /\ \E p \in PRs, k \in ForeignComments :
          /\ \A i \in DOMAIN head_comments[p] : head_comments[p][i] # k
          /\ head_comments' = [head_comments EXCEPT ![p] = Append(@, k)]
    /\ UNCHANGED <<commits, target_ref, test_refs, closed, mergeable, statuses,
                   pull_comments, bot_comments, revs, cfg_test_ref, proc,
                   log, nmerges, landed, passed>>
    /\ Disturbed
    /\ UNCHANGED <<begin_obs, forgiven, streak>>

\* the default configuration; pull 1 starts without a comment
InitForeign ==
    /\ cfg_test_ref = FALSE
    /\ DefaultBackends
    /\ max_pulls_per_run = 0
    /\ no_auto_merge = FALSE
    /\ InitState
    /\ head_comments[1] = <<>>

NextForeign == Next \/ AddForeignHeadComment

SpecForeign == InitForeign /\ [][NextForeign]_vars

\* a comment on a head commit is edited (by its author, or by the owner of
\* the fork the commit is in): its updated_at is no longer its created_at
EditHeadComment ==
    /\ UNCHANGED <<ci, conf, hist3, http>>
    /\ run = "idle"
    /\ ext < MaxExt
    /\ ext' = ext + 1
    /\ \E p \in PRs, i \in 1..(1 + MaxRetryComments + 2) :
          /\ i \in DOMAIN head_comments[p]
          /\ ~head_comments[p][i].e
          /\ head_comments' = [head_comments EXCEPT ![p][i] = Edited(@)]
    /\ UNCHANGED <<commits, target_ref, test_refs, closed, mergeable, statuses,
                   pull_comments, bot_comments, revs, cfg_test_ref, proc,
                   log, nmerges, landed, passed>>
    /\ Disturbed
    /\ UNCHANGED <<begin_obs, forgiven, streak>>

\* the default configuration; pull 2 starts without a review
InitRetract ==
    /\ cfg_test_ref = FALSE
    /\ DefaultBackends
    /\ max_pulls_per_run = 0
    /\ no_auto_merge = FALSE
    /\ InitState
    /\ head_comments[2] = <<>>

NextRetract == Next \/ EditHeadComment

SpecRetract == InitRetract /\ [][NextRetract]_vars

\* the default configuration but for max_pulls_per_run = 1
InitOnePull ==
    /\ cfg_test_ref = FALSE
    /\ DefaultBackends
    /\ max_pulls_per_run = 1
    /\ no_auto_merge = FALSE
    /\ InitState

SpecOnePull == InitOnePull /\ [][Next]_vars

\* ------------------------------------------- the remote client, in isolation
\* One call of GitHub._http after the other; the server answers every time
\* the request is sent with a status code and a content type.
MaxAttempts == 12    \* times one request is sent

\* responses urllib2 hands back, and those it raises HTTPError for
OkCodes == {200, 204}
ClientErrors == {403, 404, 409, 422}
ServerErrors == {500, 503}

\* _http is called: nretries = 10
HttpCall ==
    /\ http_pc # "open"
    /\ http_pc' = "open"
    /\ nretries' = 10
    /\ http_code' = 0
    /\ attempts' = 0
    /\ http_retried' = {}
    /\ UNCHANGED <<remote, ci, cfg_test_ref, conf, proc, hist, hist2, hist3>>

\* one pass of the "while True" of _http: the request is sent and answered
HttpRespond ==
    /\ http_pc = "open"
    /\ attempts < MaxAttempts
    /\ attempts' = attempts + 1
    /\ \E code \in OkCodes \cup ClientErrors \cup ServerErrors, is_json \in BOOLEAN :
          /\ http_code' = code
          /\ IF code \in OkCodes
             THEN \* no exception: JSON is returned, 204 gives None, and
                  \* anything else falls through to the next pass
                  /\ http_pc' = IF is_json THEN "returned"
                                ELSE IF code = 204 THEN "returned None"
                                ELSE "open"
                  /\ UNCHANGED <<nretries, http_retried>>
             ELSE \* urllib2.HTTPError
                  IF code = 404
                  THEN /\ http_pc' = "raised"
                       /\ UNCHANGED <<nretries, http_retried>>
                  ELSE IF nretries > 0
                  THEN /\ nretries' = nretries - 1
                       /\ http_retried' = http_retried \cup {code}
                       /\ http_pc' = "open"
                  ELSE /\ http_pc' = "raised"
                       /\ UNCHANGED <<nretries, http_retried>>
    /\ UNCHANGED <<remote, ci, cfg_test_ref, conf, proc, hist, hist2, hist3>>

InitHttp ==
    /\ cfg_test_ref = FALSE
    /\ DefaultBackends
    /\ max_pulls_per_run = 0
    /\ no_auto_merge = FALSE
    /\ InitState
    /\ head_comments = [p \in PRs |-> <<>>]

NextHttp == HttpCall \/ HttpRespond

SpecHttp == InitHttp /\ [][NextHttp]_vars

\* ------------------------------------------------ CI verdict, in isolation
\* A run is about to ask CI about the fresh candidate of pull 1, which an
\* earlier run merged.  The configuration (builders, backends) and what the
\* three backends report for the candidate are drawn from bounded sets.
MaxReports == 2      \* check runs, and commit statuses, of the candidate

Candidate == NumPRs + 2

BuildCodes == {NoBuild, BUILDBOT_STATUS_SUCCESS, BUILDBOT_STATUS_WARNINGS,
               BUILDBOT_STATUS_FAILURE, BUILDBOT_STATUS_SKIPPED,
               BUILDBOT_STATUS_EXCEPTION}

RunKinds == {CheckRun("completed", "success"), CheckRun("completed", "failure"),
             CheckRun("completed", "neutral"), CheckRun("in_progress", "null")}

StatusStates == {"success", "failure", "error", "pending"}

SeqsUpTo(S, n) == UNION {[1..k -> S] : k \in 0..n}

InitCI ==
    /\ cfg_test_ref = FALSE
    /\ builders \in {{}, {"b1"}, {"b1", "b2"}}
    /\ max_pulls_per_run = 0
    /\ no_auto_merge = FALSE
    /\ use_github_checks_api \in BOOLEAN
    /\ use_github_commit_status_api \in BOOLEAN
    /\ commits = [c \in 1..Candidate |->
                     IF c = 1 THEN {}
                     ELSE IF c = Candidate THEN {1, head_sha(1)} ELSE {1}]
    /\ \E r \in [builders -> BuildCodes] :
          revs = [c \in 1..Candidate |-> IF c = Candidate THEN r ELSE EmptyBuilds]
    /\ \E ss \in SeqsUpTo(RunKinds, MaxReports) : check_runs = [c \in {Candidate} |-> ss]
    /\ \E ss \in SeqsUpTo(StatusStates, MaxReports) :
          commit_statuses = [c \in {Candidate} |-> ss]
    /\ target_ref = 1
    /\ test_refs = [r \in 0..NumPRs |-> IF r = 1 THEN Candidate ELSE NoSha]
    /\ closed = [p \in PRs |-> FALSE]
    /\ mergeable = [p \in PRs |-> JsonTrue]
    /\ statuses = [p \in PRs |-> IF p = 1 THEN <<[state |-> "pending", description |-> candidate_description(Candidate)]>>
                                  ELSE <<>>]
    /\ head_comments = [p \in PRs |-> IF p = 1 THEN <<Comment("alice", "r+")>> ELSE <<>>]
    /\ pull_comments = [p \in PRs |-> <<>>]
    /\ bot_comments = [p \in PRs |-> IF p = 1 THEN <<"saw approval", "merging", "merged ok">>
                                      ELSE <<>>]
    /\ run = "running"
    /\ queue = <<>>
    /\ cur = 1
    /\ pc = "test_status"
    /\ s = STATE_PENDING
    /\ target_sha = 1
    /\ merge_sha = Candidate
    /\ t = "None"
    /\ exit_code = 0
    /\ log = <<>>
    /\ ext = 0
    /\ nmerges = 1
    /\ landed = {}
    /\ passed = {}
    /\ quiet = [p \in PRs |-> p = 1]
    /\ second = FALSE
    /\ begin_obs = [statuses |-> <<[state |-> "pending", description |-> candidate_description(Candidate)]>>,
                    comments |-> <<"saw approval", "merging", "merged ok">>,
                    test |-> Candidate, target |-> 1, closed |-> FALSE]
    /\ forgiven = [p \in PRs |-> FALSE]
    /\ streak = [p \in PRs |-> 0]
    /\ kills = 0
    /\ pass_tip = [p \in PRs |-> NoSha]
    /\ HttpIdle

NextCI ==
    \/ TestStatus \/ PassComment \/ SetSuccess \/ FailComment \/ SetFailure
    \/ RunEnd

SpecCI == InitCI /\ [][NextCI]_vars

\* ------------------------------------------- SHA-bound approvals, in isolation
\* Pull 1 has no comment but one in its pull thread: a token followed by a
\* word.  The word is a prefix, of any length, of the head SHA or of the SHA
\* of an earlier head of the pull (which shares its first 7 digits with the
\* present one), or the head SHA and one more digit.
PreviousHead(p) ==
    [i \in 1..ShaLen |-> IF i <= MinShaPrefix THEN ShaOf(head_sha(p))[i]
                         ELSE (ShaOf(head_sha(p))[i] + 1) % 16]

Words(p) ==
    {SubSeq(ShaOf(head_sha(p)), 1, n) : n \in 1..ShaLen}
    \cup {SubSeq(PreviousHead(p), 1, n) : n \in 1..ShaLen}
    \cup {ShaOf(head_sha(p)) \o <<0>>}

InitApproval ==
    /\ cfg_test_ref = FALSE
    /\ builders = {"b1"}
    /\ max_pulls_per_run = 0
    /\ no_auto_merge = FALSE
    /\ use_github_checks_api = FALSE
    /\ use_github_commit_status_api = FALSE
    /\ commits = [c \in 1..(1 + NumPRs) |-> IF c = 1 THEN {} ELSE {1}]
    /\ revs = [c \in 1..(1 + NumPRs) |-> EmptyBuilds]
    /\ check_runs = <<>>
    /\ commit_statuses = <<>>
    /\ target_ref = 1
    /\ test_refs = [r \in 0..NumPRs |-> NoSha]
    /\ closed = [p \in PRs |-> FALSE]
    /\ mergeable = [p \in PRs |-> JsonTrue]
    /\ statuses = [p \in PRs |-> <<>>]
    /\ head_comments = [p \in PRs |-> <<>>]
    /\ \E u \in {"alice", "mallory"}, c \in {"r+", "r=me", "r-", "hello"}, x \in Words(1) :
          pull_comments = [p \in PRs |-> IF p = 1 THEN <<CommentX(u, c, x)>> ELSE <<>>]
    /\ bot_comments = [p \in PRs |-> <<>>]
    /\ run = "idle"
    /\ queue = <<>>
    /\ cur = 0
    /\ pc = "none"
    /\ s = STATE_UNREVIEWED
    /\ target_sha = NoSha
    /\ merge_sha = NoSha
    /\ t = "None"
    /\ exit_code = 0
    /\ log = <<>>
    /\ ext = 0
    /\ nmerges = 0
    /\ landed = {}
    /\ passed = {}
    /\ quiet = [p \in PRs |-> FALSE]
    /\ second = FALSE
    /\ begin_obs = NoObs
    /\ forgiven = [p \in PRs |-> FALSE]
    /\ streak = [p \in PRs |-> 0]
    /\ kills = 0
    /\ pass_tip = [p \in PRs |-> NoSha]
    /\ HttpIdle

\* a run ranks the pulls and enters try_advance, which infers the state
NextApproval == RunStart \/ Begin \/ RunEnd

SpecApproval == InitApproval /\ [][NextApproval]_vars

\* ------------------------------------------------------ ranking, in isolation
\* Every pull has a candidate from an earlier run or none, and head comments
\* of a reviewer with or without an approval and priority tokens.
HeadInputs ==
    {<<>>,
     <<Comment("alice", "p=-5")>>,
     <<Comment("alice", "r+")>>,
     <<Comment("alice", "r+"), Comment("alice", "p=1")>>,
     <<Comment("alice", "r+"), Comment("alice", "p=2")>>,
     <<Comment("alice", "r+"), Comment("alice", "p=-5")>>,
     <<Comment("alice", "r+"), Comment("alice", "p=-5"), Comment("alice", "p=1")>>,
     <<Comment("alice", "r+"), Comment("alice", "p=1 p=2")>>}

CandidateOf(p) == 1 + NumPRs + p

StatusInputs(p) ==
    {<<>>,
     <<[state |-> "pending", description |-> candidate_description(CandidateOf(p))]>>,
     <<[state |-> "success", description |-> Description("all tests passed", <<>>)], [state |-> "pending", description |-> candidate_description(CandidateOf(p))]>>}

InitRank ==
    /\ cfg_test_ref = FALSE
    /\ builders = {"b1"}
    /\ max_pulls_per_run = 0
    /\ no_auto_merge = FALSE
    /\ use_github_checks_api = FALSE
    /\ use_github_commit_status_api = FALSE
    /\ commits = [c \in 1..(1 + 2 * NumPRs) |->
                     IF c = 1 THEN {}
                     ELSE IF c <= 1 + NumPRs THEN {1}
                     ELSE {1, c - NumPRs}]
    /\ revs = [c \in 1..(1 + 2 * NumPRs) |-> EmptyBuilds]
    /\ check_runs = <<>>
    /\ commit_statuses = <<>>
    /\ target_ref = 1
    /\ statuses \in [PRs -> UNION {StatusInputs(p) : p \in PRs}]
    /\ \A p \in PRs : statuses[p] \in StatusInputs(p)
    /\ pull_comments = [p \in PRs |-> <<>>]
    /\ head_comments \in [PRs -> HeadInputs]
    /\ \A p \in PRs : statuses[p] # <<>> => Len(approval_list(p)) # 0
    /\ test_refs = [r \in 0..NumPRs |->
                       IF r \in PRs /\ statuses[r] # <<>> THEN CandidateOf(r) ELSE NoSha]
    /\ closed = [p \in PRs |-> FALSE]
    /\ mergeable = [p \in PRs |-> JsonTrue]
    /\ bot_comments = [p \in PRs |-> IF statuses[p] = <<>> THEN <<>>
                                      ELSE <<"saw approval", "merging", "merged ok">>]
    /\ run = "idle"
    /\ queue = <<>>
    /\ cur = 0
    /\ pc = "none"
    /\ s = STATE_UNREVIEWED
    /\ target_sha = NoSha
    /\ merge_sha = NoSha
    /\ t = "None"
    /\ exit_code = 0
    /\ log = <<>>
    /\ ext = 0
    /\ nmerges = Cardinality({p \in PRs : statuses[p] # <<>>})
    /\ landed = {}
    /\ passed = {}
    /\ quiet = [p \in PRs |-> FALSE]
    /\ second = FALSE
    /\ begin_obs = NoObs
    /\ forgiven = [p \in PRs |-> FALSE]
    /\ streak = [p \in PRs |-> 0]
    /\ kills = 0
    /\ pass_tip = [p \in PRs |-> NoSha]
    /\ HttpIdle

\* a run ranks the pulls and enters try_advance of the ripest one
NextRank == RunStart \/ Begin \/ RunEnd

SpecRank == InitRank /\ [][NextRank]_vars

\* ------------------------------------------------------------ properties
HasOp(op) == \E i \in DOMAIN log : log[i].op = op

LogOps == [i \in DOMAIN log |-> log[i].op]

Adverse(ss) == Cardinality({i \in DOMAIN ss : ss[i].state \in {"error", "failure"}})

\* when the current try_advance began, every retry comment of the pull was
\* already used up by an error or failure status
NoUnusedRetry == Adverse(begin_obs.statuses) = count_retries(cur)

\* C1: every commit the integrator fast-forwards target_ref to is a candidate
\* for which the CI aggregator returned pass.
C1_LandedWasVerified == landed \subseteq passed

\* C2: current_state is the first match of the eight inference rules, in
\* order; with k retry comments count(pending) <= k gives APPROVED and
\* count(error)+count(failure) <= k keeps the pull out of BAD (rule 2).
C2_StateInference ==
    \A p \in PRs :
        LET st == current_state(p)
            k == count_retries(p)
            r1 == closed[p]
            r2 == count_errors(p) + count_failures(p) > k
            r3 == \E i \in DOMAIN head_comments[p] : head_comments[p][i].c \in disapproval_tokens
            r4 == count_successes(p) > 0
            r5 == mergeable[p] = JsonFalse
            r6 == \E i \in DOMAIN head_comments[p] : head_comments[p][i].c \in approval_tokens
            r7 == head_comments[p] # <<>> \/ pull_comments[p] # <<>>
        IN  /\ r1 => st = STATE_CLOSED
            /\ ~r1 /\ r2 => st = STATE_BAD
            /\ ~r1 /\ ~r2 /\ r3 => st = STATE_BAD
            /\ ~r1 /\ ~r2 /\ ~r3 /\ r4 => st = STATE_TESTED
            /\ ~r1 /\ ~r2 /\ ~r3 /\ ~r4 /\ r5 => st = STATE_STALE
            /\ ~r1 /\ ~r2 /\ ~r3 /\ ~r4 /\ ~r5 /\ r6 /\ count_pendings(p) <= k
                  => st = STATE_APPROVED
            /\ ~r1 /\ ~r2 /\ ~r3 /\ ~r4 /\ ~r5 /\ r6 /\ count_pendings(p) > k
                  => st = STATE_PENDING
            /\ ~r1 /\ ~r2 /\ ~r3 /\ ~r4 /\ ~r5 /\ ~r6 /\ r7 => st = STATE_DISCUSSING
            /\ ~r1 /\ ~r2 /\ ~r3 /\ ~r4 /\ ~r5 /\ ~r6 /\ ~r7 => st = STATE_UNREVIEWED

\* a pull with one retry comment, one pending and one failure status is APPROVED
C2_Witness ==
    \E p \in PRs : /\ count_retries(p) = 1
                   /\ count_pendings(p) = 1
                   /\ count_failures(p) = 1
                   /\ current_state(p) = STATE_APPROVED

\* C3: a try_advance that follows a try_advance of the same pull, with no
\* external change since the first began, leaves the remote state it found.
C3_Idempotent ==
    (pc \in {"done", "crashed"} /\ second) => Obs(cur) = begin_obs

\* C3 amended: the same, for a pull without retry comments that has no
\* success status when the second try_advance begins.
C3_IdempotentUntested ==
    (/\ pc \in {"done", "crashed"}
     /\ second
     /\ count_retries(cur) = 0
     /\ \A i \in DOMAIN begin_obs.statuses : begin_obs.statuses[i].state # "success")
    => Obs(cur) = begin_obs

\* the second try_advance found the candidate of the first fresh and asked CI
C3_Witness ==
    /\ pc = "done"
    /\ second
    /\ s = STATE_PENDING
    /\ count_retries(cur) = 0
    /\ HasOp("test_status")
    /\ Len(begin_obs.statuses) = 1


\* what try_advance does with a stale candidate when the merge succeeds ...
RemergeOk == <<"comment:stale", "reset:patch", "comment:merging", "merge:ok",
               "comment:merged ok", "status:pending">>

\* ... and when the platform rejects the merge
RemergeFailed == <<"comment:stale", "reset:patch", "comment:merging", "merge:failed",
                   "comment:merging failed", "status:error">>

\* the reset and the pending status of a re-merge name the right commits
RemergeShas ==
    /\ log[2].sha = target_sha
    /\ commits[log[4].sha] = {target_sha, head_sha(cur)}
    /\ test_refs[test_ref(cur)] = log[4].sha
    /\ statuses[cur][1] = [state |-> "pending", description |-> candidate_description(log[4].sha)]

\* C4: a PENDING pull whose test_ref tip is not a fresh candidate gets, in
\* the next try_advance, test_ref reset to the target tip, a new merge of
\* head_sha, a new pending status naming the new merge SHA, no CI query and
\* no success or failure status.
C4_StaleRemerge ==
    (pc = "done" /\ s = STATE_PENDING /\ HasOp("comment:stale"))
    => (LogOps = RemergeOk /\ RemergeShas)

\* C4 amended: the pending status is recorded if the new merge succeeds; if
\* the platform rejects the merge an error status is recorded instead.
C4_StaleRemergeOrError ==
    (pc = "done" /\ s = STATE_PENDING /\ HasOp("comment:stale"))
    => \/ LogOps = RemergeOk /\ RemergeShas
       \/ /\ LogOps = RemergeFailed
          /\ log[2].sha = target_sha
          /\ test_refs[test_ref(cur)] = target_sha
          /\ statuses[cur][1].state = "error"

\* a stale candidate of a PENDING pull was replaced by a new merge
C4_Witness ==
    /\ pc = "done"
    /\ s = STATE_PENDING
    /\ LogOps = RemergeOk
    /\ begin_obs.test # NoSha
    /\ ~fresh(cur, begin_obs.test, target_sha)

\* C5: after a CI failure, one new retry comment makes the next run infer
\* APPROVED, whatever pending statuses the head already has.
C5_RetryReapproves ==
    \A p \in PRs :
        (/\ forgiven[p]
         /\ ~closed[p]
         /\ count_errors(p) + count_failures(p) = count_retries(p)
         /\ count_successes(p) = 0
         /\ Len(disapproval_list(p)) = 0
         /\ Len(approval_list(p)) # 0
         /\ mergeable[p] # JsonFalse)
        => current_state(p) = STATE_APPROVED

\* C6: a try_advance that fast-forwarded target_ref leaves the pull closed.
C6_LandCloses == (pc = "done" /\ HasOp("ffwd:ok")) => closed[cur]

RejectedOps == <<"ffwd:rejected", "comment:fast-forwarding failed", "status:error">>

\* what a rejected fast-forward leaves behind, but for the next state
RejectedEffects ==
    /\ LogOps = RejectedOps
    /\ Len(statuses[cur]) = Len(begin_obs.statuses) + 1
    /\ statuses[cur][1].state = "error"
    /\ Len(bot_comments[cur]) = Len(begin_obs.comments) + 1
    /\ test_refs[test_ref(cur)] = begin_obs.test
    /\ target_ref # merge_sha
    /\ ~closed[cur]

\* C7: a rejected non-force update of target_ref leaves exactly one error
\* status and a comment, test_ref and target_ref untouched, the pull open,
\* and the pull BAD on the next run.
C7_RejectedIsBad ==
    (pc = "done" /\ HasOp("ffwd:rejected"))
    => (RejectedEffects /\ current_state(cur) = STATE_BAD)

\* C7 amended: BAD on the next run when no retry comment was left unused.
C7_RejectedIsBadUnlessRetry ==
    (pc = "done" /\ HasOp("ffwd:rejected"))
    => (RejectedEffects /\ (NoUnusedRetry => current_state(cur) = STATE_BAD))

\* a fast-forward was rejected and the pull is BAD
C7_Witness ==
    /\ pc = "done"
    /\ HasOp("ffwd:rejected")
    /\ current_state(cur) = STATE_BAD

MergeFailedOps(reset) == <<"comment:saw approval", reset, "comment:merging",
                           "merge:failed", "comment:merging failed", "status:error">>

\* what a rejected merge of the APPROVED step leaves behind, but for the next state
MergeFailedEffects ==
    /\ LogOps \in {MergeFailedOps("reset:patch"), MergeFailedOps("reset:post")}
    /\ Len(statuses[cur]) = Len(begin_obs.statuses) + 1
    /\ statuses[cur][1].state = "error"
    /\ bot_comments[cur][Len(bot_comments[cur])] = "merging failed"

\* C8: a rejected server-side merge in the APPROVED step leaves a failure
\* comment and an error status, no pending status, and the pull BAD on the
\* next run.
C8_MergeFailureIsBad ==
    (pc = "done" /\ s = STATE_APPROVED /\ HasOp("merge:failed"))
    => (MergeFailedEffects /\ current_state(cur) = STATE_BAD)

\* C8 amended: BAD on the next run when no retry comment was left unused.
C8_MergeFailureIsBadUnlessRetry ==
    (pc = "done" /\ s = STATE_APPROVED /\ HasOp("merge:failed"))
    => (MergeFailedEffects /\ (NoUnusedRetry => current_state(cur) = STATE_BAD))

\* the merge of an APPROVED pull was rejected and the pull is BAD
C8_Witness ==
    /\ pc = "done"
    /\ s = STATE_APPROVED
    /\ HasOp("merge:failed")
    /\ current_state(cur) = STATE_BAD

\* C9: a run does not fail on a PENDING or TESTED pull that has no usable
\* candidate (test_ref is missing, or no pending status names one).
C9_MissingCandidateTolerated ==
    ~(/\ pc = "crashed"
      /\ s \in {STATE_PENDING, STATE_TESTED}
      /\ (test_refs[test_ref(cur)] = NoSha \/ merge_sha = NoSha))

\* C10: pulls that share test_ref do not keep replacing each other's
\* candidate: the candidate a pull made after another pull's merge replaced
\* its candidate is still on test_ref when the pull is advanced next.
C10_NoMutualRemerge == \A p \in PRs : streak[p] < 2

\* C11: a run may be terminated between any two remote calls; the later
\* runs still land only the candidate CI verified.  Stated for a landing
\* that finds target_ref where it was when CI passed the pull's candidate
\* (no push in between, so the verified candidate is still fresh).
C11_KilledRunLandsVerified ==
    (HasOp("ffwd:ok") /\ target_sha = pass_tip[cur]) => merge_sha \in passed

\* C12: whoever moves target_ref, every commit of its history stays in its
\* history; and when the integrator moves it, the new tip is a commit whose
\* parents are the tip read by the freshness check of the same try_advance
\* and the head of the pull, and the old tip is an ancestor of the new one.
C12_TargetOnlyFastForwarded ==
    [][/\ \A c \in DOMAIN commits :
              IsAncestor(c, target_ref) => IsAncestor(c, target_ref)'
       /\ landed' # landed =>
              /\ target_ref' = merge_sha
              /\ commits[merge_sha] = {target_sha, head_sha(cur)}
              /\ target_ref = target_sha]_vars

\* an external push arrived between the freshness check and the update of
\* target_ref, after the integrator had landed another candidate
C12_Witness ==
    /\ landed # {}
    /\ pc = "ffwd_fail_comment"
    /\ HasOp("ffwd:rejected")
    /\ target_ref # target_sha

\* the CI verdict of the current try_advance has been computed
Judged == HasOp("test_status")

PassCodes == {BUILDBOT_STATUS_SUCCESS, BUILDBOT_STATUS_WARNINGS}

FailCodes == {BUILDBOT_STATUS_FAILURE, BUILDBOT_STATUS_EXCEPTION}

\* every report of the backend that decides is a pass, and none is missing
\* or pending
AllReportedPass(sha) ==
    IF use_github_commit_status_api
    THEN /\ StatusesOf(sha) # <<>>
         /\ \A i \in DOMAIN StatusesOf(sha) : StatusesOf(sha)[i] = "success"
    ELSE \A b \in builders : revs[sha][b] \in PassCodes

\* C13: the verdict is pass only if every configured builder or check has
\* reported and every report is a pass; with the commit-status backend a
\* status that is still pending keeps the verdict from being pass.
C13_PassOnlyIfAllReported ==
    (Judged /\ t = "True") => AllReportedPass(merge_sha)

\* the check runs of the revision: some completed with success, some not
\* completed, none completed otherwise
SomeChecksRunning(sha) ==
    LET ss == ChecksOf(sha)
    IN  /\ \E i \in DOMAIN ss : ss[i] = CheckRun("completed", "success")
        /\ \E i \in DOMAIN ss : ss[i].status # "completed"
        /\ \A i \in DOMAIN ss : ss[i].status = "completed" => ss[i].conclusion = "success"

\* no report of a backend the configuration enables is a failure
NoFailureReported(sha) ==
    /\ use_github_checks_api =>
          \A i \in DOMAIN ChecksOf(sha) :
              ChecksOf(sha)[i].status = "completed" => ChecksOf(sha)[i].conclusion = "success"
    /\ use_github_commit_status_api =>
          \A i \in DOMAIN StatusesOf(sha) : StatusesOf(sha)[i] \notin {"failure", "error"}
    /\ (~use_github_checks_api /\ ~use_github_commit_status_api) =>
          \A b \in builders : revs[sha][b] \notin FailCodes

\* C14: when no report of an enabled backend is a failure, the verdict is
\* pass or waiting and no failure status is written; with only the
\* check-run backend enabled, some successful and some non-completed checks
\* give waiting.
C14_UncertaintyIsWaiting ==
    Judged =>
        /\ NoFailureReported(merge_sha) =>
               (t \in {"True", "None"} /\ ~HasOp("status:failure"))
        /\ (/\ use_github_checks_api
            /\ ~use_github_commit_status_api
            /\ SomeChecksRunning(merge_sha)) => t = "None"

\* what BuildBot.get_status may keep when one more build of builder b with
\* result code is listed: the build it meets first
AddBuild(r, b, code) ==
    {[r EXCEPT ![b] = code]} \cup (IF r[b] # NoBuild THEN {r} ELSE {})

\* C15: for each backend, one more passing report keeps a pass verdict, and
\* one more failing report never turns a waiting or fail verdict into pass.
C15_Monotone ==
    LET r == revs[Candidate]
        cs == ChecksOf(Candidate)
        ss == StatusesOf(Candidate)
    IN  /\ \A b \in builders :
              /\ \A code \in PassCodes : \A r2 \in AddBuild(r, b, code) :
                     revs_status(r) = "True" => revs_status(r2) = "True"
              /\ \A code \in FailCodes : \A r2 \in AddBuild(r, b, code) :
                     revs_status(r) # "True" => revs_status(r2) # "True"
        /\ check_runs_status(cs) = "True"
              => check_runs_status(Append(cs, CheckRun("completed", "success"))) = "True"
        /\ \A x \in {CheckRun("completed", "failure"), CheckRun("completed", "neutral")} :
              check_runs_status(cs) # "True" => check_runs_status(Append(cs, x)) # "True"
        /\ commit_statuses_status(ss) = "True"
              => commit_statuses_status(Append(ss, "success")) = "True"
        /\ \A x \in {"failure", "error"} :
              commit_statuses_status(ss) # "True"
              => commit_statuses_status(Append(ss, x)) # "True"

\* try_advance got a pass from the commit statuses of the candidate, which
\* one more failing status would turn into a failure
C15_Witness ==
    /\ Judged
    /\ t = "True"
    /\ use_github_commit_status_api
    /\ Len(StatusesOf(merge_sha)) = MaxReports
    /\ commit_statuses_status(Append(StatusesOf(merge_sha), "failure")) = "False"

\* the one comment of the pull thread of pull 1
Said == pull_comments[1][1]

\* try_advance has inferred the state of pull 1 in this run
Inferred == run = "running" /\ cur = 1

\* C16: a comment "<token> <X>" of a reviewer in the pull thread counts in
\* approval_list (disapproval_list for a disapproval token) if and only if
\* X is a prefix of the head SHA, whatever the length of X.
C16_ShaBinding ==
    /\ Len(approval_list(1)) # 0
          <=> /\ Said.c \in approval_tokens
              /\ Said.u \in reviewers
              /\ startswith(ShaOf(head_sha(1)), Said.x)
    /\ Len(disapproval_list(1)) # 0
          <=> /\ Said.c \in disapproval_tokens
              /\ Said.u \in reviewers
              /\ startswith(ShaOf(head_sha(1)), Said.x)
    /\ Inferred => (s = STATE_APPROVED <=> Len(approval_list(1)) # 0)

\* X is bound to the head: it has 7 to 40 digits and is a prefix of the head
\* SHA, or it has more and its first 40 digits are the head SHA
Bound(x) ==
    \/ Len(x) \in MinShaPrefix..ShaLen /\ startswith(ShaOf(head_sha(1)), x)
    \/ Len(x) > ShaLen /\ SubSeq(x, 1, ShaLen) = ShaOf(head_sha(1))

\* C16 amended: ... if and only if X has at least 7 digits and its first 40
\* digits are a prefix of the head SHA; a shorter X never counts.
C16_ShaBindingFrom7 ==
    /\ Len(approval_list(1)) # 0
          <=> (Said.c \in approval_tokens /\ Said.u \in reviewers /\ Bound(Said.x))
    /\ Len(disapproval_list(1)) # 0
          <=> (Said.c \in disapproval_tokens /\ Said.u \in reviewers /\ Bound(Said.x))
    /\ Inferred => (s = STATE_APPROVED <=> Len(approval_list(1)) # 0)

\* try_advance found pull 1 approved by a comment that names the first 7
\* digits of its head
C16_Witness ==
    /\ Inferred
    /\ s = STATE_APPROVED
    /\ Len(Said.x) = MinShaPrefix

\* main() has ranked the pulls and has not called try_advance yet
Ranked == run = "running" /\ pc = "none" /\ cur = 0

\* a is riper than b
Riper(a, b) ==
    \/ current_state(a) > current_state(b)
    \/ current_state(a) = current_state(b) /\ priority(a) > priority(b)
    \/ current_state(a) = current_state(b) /\ priority(a) = priority(b) /\ a < b

\* C17: the key (state, priority, -num) strictly orders any two distinct
\* pulls, and the pulls are advanced from the ripest down: one is advanced
\* before another exactly when it has the higher state, or the same state
\* and the higher priority, or the same state and priority and the lower
\* number.
C17_AdvanceOrder ==
    /\ \A a, b \in PRs :
           a # b => (KeyLess(prioritized_state(a), prioritized_state(b))
                     <=> ~KeyLess(prioritized_state(b), prioritized_state(a)))
    /\ Ranked =>
           /\ \A a \in PRs : Viable(a) <=> \E i \in DOMAIN queue : queue[i] = a
           /\ \A i, j \in DOMAIN queue : i < j <=> Riper(queue[i], queue[j])
    /\ (run = "running" /\ cur # 0) =>
           \A i \in DOMAIN queue : Riper(cur, queue[i])

\* two pulls with the same state and the same priority: the older one is
\* advanced first
C17_Witness ==
    /\ run = "running"
    /\ cur = 1
    /\ queue = <<2>>
    /\ current_state(1) = current_state(2)
    /\ priority(1) = priority(2)
    /\ priority(1) > 0

\* every integer a "p=<signed-integer>" token of the head comments gives
AllTokens(p) ==
    UNION {{PriorityTokens(head_comments[p][i].c)[k] :
               k \in DOMAIN PriorityTokens(head_comments[p][i].c)} :
           i \in DOMAIN head_comments[p]}

\* C18: the priority of a pull is the greatest integer of the priority
\* tokens of its head comments, and 0 when there is no token; a pull whose
\* only token is p=-5 is advanced after a pull of the same state without
\* a token.
C18_PriorityIsMaxToken ==
    /\ \A p \in PRs :
           /\ AllTokens(p) = {} => priority(p) = 0
           /\ AllTokens(p) # {} =>
                  (priority(p) \in AllTokens(p) /\ \A x \in AllTokens(p) : x <= priority(p))
    /\ Ranked =>
           \A i, j \in DOMAIN queue :
               (/\ current_state(queue[i]) = current_state(queue[j])
                /\ AllTokens(queue[i]) = {-5}
                /\ AllTokens(queue[j]) = {}) => j < i

\* the state try_advance inferred is one of those main() lets through
ViableState == s >= STATE_DISCUSSING /\ s < STATE_CLOSED

\* C19: try_advance is called only for pulls whose state is in
\* [DISCUSSING, CLOSED), and every status, comment and ref the integrator
\* writes is written in the try_advance of such a pull, for that pull; with
\* max_pulls_per_run = N > 0 the run advances at most N pulls, the N ripest
\* viable ones.
C19_OnlyViableAdvanced ==
    /\ [](/\ (run = "running" /\ cur # 0) => ViableState
          /\ (Ranked /\ max_pulls_per_run > 0) =>
                /\ Len(queue) <= max_pulls_per_run
                /\ \/ Len(queue) = max_pulls_per_run
                   \/ \A p \in PRs : (Viable(p) => \E i \in DOMAIN queue : queue[i] = p)
                /\ \A i \in DOMAIN queue : \A p \in PRs :
                       \/ \E j \in DOMAIN queue : queue[j] = p
                       \/ ~Viable(p)
                       \/ Riper(queue[i], p))
    /\ [][/\ \A p \in PRs :
                 ((statuses'[p] # statuses[p] \/ bot_comments'[p] # bot_comments[p])
                  => (run = "running" /\ p = cur /\ ViableState))
           /\ ((test_refs' # test_refs \/ landed' # landed \/ nmerges' # nmerges)
                 => (run = "running" /\ cur # 0 /\ ViableState))
           /\ ((run = "running" /\ run' = "running") =>
                 (\/ queue' = queue /\ cur' = cur
                  \/ queue # <<>> /\ queue' = Tail(queue) /\ cur' = Head(queue)))]_vars

\* with max_pulls_per_run = 1 a run has merged the ripest pull and is over,
\* and an approved pull was left for a later run
C19_Witness ==
    /\ max_pulls_per_run = 1
    /\ run = "running"
    /\ pc = "done"
    /\ queue = <<>>
    /\ HasOp("merge:ok")
    /\ \E q \in PRs \ {cur} : current_state(q) = STATE_APPROVED

\* a reviewer wrote exactly "@<bot>: merge" on the thread of pull p
ExactOptIn(p) ==
    \E i \in DOMAIN pull_comments[p] :
        /\ pull_comments[p][i].c = "@bors: merge"
        /\ pull_comments[p][i].u \in reviewers

\* a reviewer wrote a comment on the thread of pull p that begins with
\* "@<bot> merge" or "@<bot>: merge"
PrefixOptIn(p) ==
    \E i \in DOMAIN pull_comments[p] :
        /\ pull_comments[p][i].c \in {"@bors: merge", "@bors merge", "@bors: merge later"}
        /\ pull_comments[p][i].u \in reviewers

\* the try_advance of a TESTED pull has ended
TestedDone == run = "running" /\ cur # 0 /\ s = STATE_TESTED /\ pc = "done"

MergesOf(p) ==
    {c \in DOMAIN commits : Cardinality(commits[c]) = 2 /\ head_sha(p) \in commits[c]}

\* the newest of them
LastMergeOf(p) == CHOOSE c \in MergesOf(p) : \A d \in MergesOf(p) : d <= c

C22_CandidateRecoverable ==
    /\ \A p \in PRs :
          current_state(p) \in {STATE_PENDING, STATE_TESTED}
          => \/ get_merge_sha(p) \in DOMAIN commits
             \/ test_refs[test_ref(p)] \in DOMAIN commits
    /\ (run = "running" /\ s = STATE_TESTED /\ pc = "fresh") => merge_sha \in DOMAIN commits
    /\ (run = "running" /\ pc = "ffwd_patch") => merge_sha \in DOMAIN commits

\* a TESTED pull is at the landing step with the candidate of its newest
\* pending status, which is not its newest status
C22_Witness ==
    /\ run = "running"
    /\ s = STATE_TESTED
    /\ pc = "ffwd_patch"
    /\ statuses[cur][1].state = "success"
    /\ merge_sha = get_merge_sha(cur)
    /\ merge_sha \in DOMAIN commits

\* C23: a step of the integrator that changes the state inferred for a
\* pull, to a state other than CLOSED, is the write of a status on the head
\* of that pull by its try_advance; so a pull whose state differs between two
\* runs without an external event had a status written in the earlier run.
C23_StatusBeforeStateChange ==
    [][\A p \in PRs :
          (/\ ext' = ext
           /\ current_state(p)' # current_state(p)
           /\ current_state(p)' # STATE_CLOSED)
          => /\ run = "running"
             /\ cur = p
             /\ Len(statuses'[p]) = Len(statuses[p]) + 1
             /\ SubSeq(statuses'[p], 2, Len(statuses'[p])) = statuses[p]]_vars

\* an APPROVED pull was merged and is PENDING since its pending status
C23_Witness ==
    /\ run = "running"
    /\ pc = "done"
    /\ s = STATE_APPROVED
    /\ LogOps[Len(LogOps)] = "status:pending"
    /\ current_state(cur) = STATE_PENDING

\* the remote calls of the current try_advance whose name is in ops
CallsOf(ops) == Cardinality({i \in DOMAIN log : log[i].op \in ops})

StatusOps == {"status:pending", "status:success", "status:failure", "status:error"}

\* C24: one try_advance writes at most one status, asks for at most one
\* server-side merge and updates target_ref at most once.
C24_AtMostOneStep ==
    /\ CallsOf(StatusOps) <= 1
    /\ CallsOf({"merge:ok", "merge:failed", "merge:nothing"}) <= 1
    /\ CallsOf({"ffwd:ok", "ffwd:rejected"}) <= 1
    /\ (run = "running" /\ cur # 0) =>
          Len(statuses[cur]) <= Len(begin_obs.statuses) + 1

\* a TESTED pull with a stale candidate was merged again: one merge and one
\* status, the new pending one
C24_Witness ==
    /\ run = "running"
    /\ pc = "done"
    /\ s = STATE_TESTED
    /\ CallsOf({"merge:ok"}) = 1
    /\ CallsOf(StatusOps) = 1
    /\ HasOp("status:pending")

FailureComments == {"merging failed", "some tests failed", "fast-forwarding failed"}

\* the current try_advance wrote a failure or error status
WroteAdverseStatus ==
    /\ run = "running"
    /\ cur # 0
    /\ Len(statuses[cur]) > Len(begin_obs.statuses)
    /\ statuses[cur][1].state \in {"failure", "error"}

\* C25: a try_advance that wrote a failure or error status posted, right
\* before it, a comment on the head that says what failed.
C25_FailureHasComment ==
    /\ WroteAdverseStatus =>
          /\ Len(bot_comments[cur]) > Len(begin_obs.comments)
          /\ bot_comments[cur][Len(bot_comments[cur])] \in FailureComments
    /\ \A i \in DOMAIN log :
          log[i].op \in {"status:failure", "status:error"}
          => /\ i > 1
             /\ log[i - 1].op \in {"comment:" \o k : k \in FailureComments}

\* CI failed the candidate: a comment, then the failure status
C25_Witness ==
    /\ WroteAdverseStatus
    /\ statuses[cur][1].state = "failure"
    /\ bot_comments[cur][Len(bot_comments[cur])] = "some tests failed"
    /\ LogOps[Len(LogOps)] = "status:failure"

\* every comment on the head of pull p was written by somebody who is not
\* a reviewer, or was edited; its thread has no comment of a reviewer
OnlyForeign(p) ==
    /\ \A i \in DOMAIN head_comments[p] :
          head_comments[p][i].u \notin reviewers \/ head_comments[p][i].e
    /\ \A i \in DOMAIN pull_comments[p] : pull_comments[p][i].u \notin reviewers

\* C26: comments on the head by somebody who is not a reviewer, and edited
\* ones, give no approval, disapproval, retry or priority; a pull with no
\* other comment that bears a verdict is never inferred APPROVED, PENDING or
\* BAD, is never merged and gets no status.
C26_ForeignCommentsIgnored ==
    \A p \in PRs :
        OnlyForeign(p) =>
            /\ approval_list(p) = <<>>
            /\ disapproval_list(p) = <<>>
            /\ count_retries(p) = 0
            /\ priority(p) = 0
            /\ current_state(p) \in {STATE_UNREVIEWED, STATE_DISCUSSING,
                                     STATE_STALE, STATE_CLOSED}
            /\ MergesOf(p) = {}
            /\ statuses[p] = <<>>
            /\ bot_comments[p] = <<>>
            /\ (run = "running" /\ cur = p) => pc \in {"none", "done"}

\* try_advance was called for a pull that has an approval of a stranger and
\* an edited approval of a reviewer on its head, and did nothing
C26_Witness ==
    /\ run = "running"
    /\ cur # 0
    /\ pc = "done"
    /\ OnlyForeign(cur)
    /\ \E i \in DOMAIN head_comments[cur] : head_comments[cur][i] = Comment("mallory", "r+")
    /\ \E i \in DOMAIN head_comments[cur] :
          head_comments[cur][i] = Edited(Comment("alice", "r+"))

\* C27: a request is sent again only after a 5xx response, at most ten
\* times, after which the error is raised; a 404 or another 4xx response is
\* raised without the request being sent again.
C27_RetryPolicy ==
    /\ http_retried \subseteq ServerErrors
    /\ Cardinality(http_retried) <= 10 /\ nretries \in 0..10
    /\ http_pc = "raised" =>
          \/ http_code \in ClientErrors
          \/ http_code \in ServerErrors /\ nretries = 0

\* the APPROVED step of the current try_advance succeeded: the merge was
\* made and the pending status written
ApprovedStepDone ==
    /\ run = "running"
    /\ pc = "done"
    /\ s = STATE_APPROVED
    /\ HasOp("merge:ok")
    /\ LogOps[Len(LogOps)] = "status:pending"

\* C28: once the APPROVED step has succeeded the state inferred for the pull
\* is PENDING, whatever the number of retry comments on its head.
C28_ApprovedThenPending ==
    ApprovedStepDone => current_state(cur) = STATE_PENDING

\* the current try_advance has returned after waiting: for a review, or for
\* the CI verdict of a fresh candidate
WaitedAndReturned ==
    /\ run = "running"
    /\ cur # 0
    /\ pc = "done"
    /\ \/ s \in {STATE_UNREVIEWED, STATE_DISCUSSING}
       \/ s = STATE_PENDING /\ HasOp("test_status") /\ t = "None"

\* C29: a try_advance of an UNREVIEWED or DISCUSSING pull, and one of a
\* PENDING pull with a fresh candidate whose CI verdict is not there yet,
\* makes no remote write: no status, comment, ref update or merge.
C29_WaitingWritesNothing ==
    WaitedAndReturned =>
        /\ \A i \in DOMAIN log : log[i].op = "test_status"
        /\ statuses[cur] = begin_obs.statuses
        /\ bot_comments[cur] = begin_obs.comments
        /\ test_refs[test_ref(cur)] = begin_obs.test
        /\ closed[cur] = begin_obs.closed
        /\ quiet[cur] => target_ref = begin_obs.target

\* a PENDING pull with a fresh candidate waited for CI
C29_Witness ==
    /\ WaitedAndReturned
    /\ s = STATE_PENDING
    /\ LogOps = <<"test_status">>
    /\ Obs(cur) = begin_obs

\* C30: reset_test_ref_to_target leaves test_ref at the tip of target_ref it
\* read, whether the ref existed or not; and when the APPROVED step has
\* succeeded with no external write since it began, the tip of test_ref is
\* the commit named in the newest pending status, whose two parents are that
\* tip of target_ref and the head of the pull, so the candidate is fresh.
C30_FreshAfterApprovedStep ==
    /\ (run = "running" /\ pc = "merge_comment")
          => (test_refs[test_ref(cur)] = target_sha /\ target_sha # NoSha)
    /\ (ApprovedStepDone /\ quiet[cur]) =>
          /\ statuses[cur][1].state = "pending"
          /\ statuses[cur][1].description = candidate_description(merge_sha)
          /\ get_merge_sha(cur) = merge_sha
          /\ test_refs[test_ref(cur)] = merge_sha
          /\ Cardinality(commits[merge_sha]) = 2
          /\ commits[merge_sha] = {target_sha, head_sha(cur)}
          /\ target_sha = target_ref
          /\ fresh(cur, merge_sha, target_ref)

\* the APPROVED step created test_ref, merged and recorded the candidate
C30_Witness ==
    /\ ApprovedStepDone
    /\ quiet[cur]
    /\ HasOp("reset:post")
    /\ fresh(cur, get_merge_sha(cur), target_ref)

\* a reviewer has approved the head of pull p at some time: comments on a
\* head are edited but not removed
EverApproved(p) ==
    \/ \E i \in DOMAIN head_comments[p] :
          /\ head_comments[p][i].u \in reviewers
          /\ head_comments[p][i].c \in approval_tokens
    \/ \E i \in DOMAIN pull_comments[p] :
          /\ pull_comments[p][i].u \in reviewers
          /\ rec_match(pull_comments[p][i], approval_tokens)
          /\ startswith(ShaOf(head_sha(p)), rec_group(pull_comments[p][i]))

\* C31: when target_ref is fast-forwarded for a pull, the head of the pull
\* carries an approval of a reviewer and no disapproval, and the commit
\* landed has two parents, one of them the head; and no head that was never
\* approved has a success status.
C31_LandedIsApproved ==
    /\ (run = "running" /\ HasOp("ffwd:ok")) =>
          /\ Len(approval_list(cur)) > 0
          /\ Len(disapproval_list(cur)) = 0
          /\ Cardinality(commits[merge_sha]) = 2
          /\ head_sha(cur) \in commits[merge_sha]
    /\ \A p \in PRs : count_successes(p) > 0 => EverApproved(p)

\* C32: _http sends a request at most 11 times, and after the eleventh
\* answer at the latest it has returned a value or raised ApiError, whatever
\* the answers are.
C32_HttpTerminates ==
    /\ attempts <= 11
    /\ attempts = 11 => http_pc \in {"returned", "returned None", "raised"}

====
